---- MODULE Spec2Model ----
(***************************************************************************)
(* Concord: the rendezvous relay's store-and-forward message queue and the *)
(* peer node's outbound router, command loop and relay poll loop.          *)
(*                                                                         *)
(* Relay:  unnamed/part_008 (relay server)                                 *)
(* Peer:   unnamed/part_014 (sidecar, second file: lines 620..1364)        *)
(***************************************************************************)
EXTENDS Integers, Sequences, FiniteSets, TLC

\* ------------------------------------------------------------------ bounds

\* The clock advances at most MaxTicks times.
MaxTicks == 3
\* At most MaxSends /send requests (or request bursts) are handled.
MaxSends == 2
\* At most MaxPolls /poll requests are handled.
MaxPolls == 2
\* The router handles at most MaxCmds send commands.
MaxCmds == 1
\* At most MaxForwarded send commands are handled while the receiver polls.
MaxForwarded == 2
\* The relay's HTTP server handles at most MaxRequests requests.
MaxRequests == 4
\* A peer session runs at most MaxRuns handlers (commands, timers).
MaxRuns == 2
\* At most MaxStarts peer processes are started on the data directory.
MaxStarts == 3
\* At most MaxWires envelopes are written or sent to the receiving node.
MaxWires == 2
\* An inbound chat stream carries at most MaxFrames frames.
MaxFrames == 2
\* The relay goes down or drops a node's connection at most MaxDrops times.
MaxDrops == 3
\* At most MaxAdds dial_result events reach the app.
MaxAdds == 2
\* At most MaxMilliseconds milliseconds pass while they do.
MaxMilliseconds == 1

\* ------------------------------------------------------- program constants

MSG_TTL_MS == 5 * 60 * 1000
MSG_MAX_PER_PEER == 200
CODE_TTL_MS == 24 * 60 * 60 * 1000
CLEANUP_INTERVAL_MS == 60 * 60 * 1000
MAX_PEERS == 50
\* The model's clock advances by half the time to live.
TickMs == MSG_TTL_MS \div 2

\* parseInt() of a non-numeric string.  Every comparison with it is false.
NaN == 0 - 1

\* ------------------------------------------------------------------- state

VARIABLES
  messageQueues,  \* relay: recipient peer-id -> sequence of queued messages
  now,            \* Date.now() in ms
  enqCount,       \* ghost: number of enqueueMessage calls so far
  returned,       \* ghost: per recipient, the seq numbers of the messages
                  \*        its /poll responses have carried
  unswept,        \* ghost: per recipient, the messages enqueued since the
                  \*        last sweep and the recipient's last drain
  nSends,         \* ghost: /send requests (bursts) handled
  nPolls,         \* ghost: /poll requests handled
  nTicks,         \* ghost: clock advances
  burst,          \* ghost: the /send requests of a burst still to arrive
  lastOp,         \* ghost: the operation the relay performed in the last step
  getPeers,       \* peer: node -> peer-ids the overlay is connected to
  knownChatPeers, \* peer: node -> the knownChatPeers set
  relayPeerId,    \* peer: node -> the relay's peer-id, or Null
  stats,          \* peer: node -> { sent, sendFail, recv, recvFail }
  pollErrors,     \* peer: node -> consecutive failed polls
  emitted,        \* peer: node -> the message events written to stdout
  pending,        \* ghost: node -> what was sent in the messages the relay
                  \*        accepted for the node since a poll response last
                  \*        reached it; drained: the relay has handled a
                  \*        /poll of the node since
  nCmds,          \* ghost: stdin commands handled
  lastCmd,        \* ghost: the send command handled in the last step, if
                  \*        one was, and its sendTo calls
  lastPoll,       \* ghost: the poll a node performed in the last step, if
                  \*        one did
  codeToEntry,    \* relay: invite code -> { peerId, lastSeen }
  peerToCode,     \* relay: peer-id -> invite code
  issued,         \* ghost: peer-id -> the code /register last answered it
                  \*        with, when it first and last did, and when the
                  \*        code was last registered or looked up
  nReqs,          \* ghost: HTTP requests handled
  lastReq,        \* ghost: the HTTP request the relay answered in the last
                  \*        step, if it did, and the answer
  inviteCode,     \* peer: node -> the inviteCode variable
  timers,         \* peer: node -> the callbacks setTimeout has pending
  identityFile,   \* data directory: the identity file
  configFile,     \* data directory: the port file
  instances,      \* peer processes started on the data directory: where
                  \*        each is in its startup, its port, conflict flag,
                  \*        key and the port it has bound
  nStarts,        \* ghost: startups begun
  lastStart,      \* ghost: the startup step taken in the last step, if one
                  \*        was
  stream,         \* chat stream into the receiving node: the chunks not yet
                  \*        read and whether the writer has closed it
  buffer,         \* chat handler of the receiving node: its text buffer
  inbox,          \* relay: the receiving node's queue with the texts as
                  \*        they are on the wire
  wires,          \* ghost: what was written or sent to the receiving node
  sending,        \* network: the /send requests under way to the relay
  replies,        \* network: the /poll responses under way to the nodes
  lastRun,        \* ghost: the dial command or timer callback a node ran in
                  \*        the last step, the requests and dials it made and
                  \*        the events it wrote
  reachable,      \* network: whether the relay answers requests and dials
  attempts,       \* peer: the reconnectRelay timers pending and the
                  \*        reconnectRelay calls under way, by the await each
                  \*        is at; ghost: the dials and registrations done
  nDrops,         \* ghost: relay outages and relay disconnections so far
  localStorage,   \* app: the known-peers list under STORAGE_KEY
  knownPeersReconnected, \* app: the flag of the event handler
  nAdds,          \* ghost: dial results and ready events handled
  lastUi          \* ghost: the event the app handled in the last step, if
                  \*        it did, and the list before it

relayVars == <<messageQueues, now, enqCount, returned, unswept, nSends, nPolls, nTicks, burst>>

peerVars == <<getPeers, knownChatPeers, relayPeerId, stats, pollErrors, emitted,
              pending, nCmds, timers>>

registryVars == <<codeToEntry, peerToCode, issued, nReqs>>

startupVars == <<identityFile, configFile, instances, nStarts, lastStart>>

\* The state of the components a relay or session step does not touch.
wireVars == <<stream, buffer, inbox, wires>>

inFlightVars == <<sending, replies>>

reconnectVars == <<reachable, attempts, nDrops>>

appVars == <<localStorage, knownPeersReconnected, nAdds, lastUi>>

otherVars == <<startupVars, wireVars, inFlightVars, reconnectVars, appVars>>

vars == <<messageQueues, now, enqCount, returned, unswept, nSends, nPolls, nTicks, burst, lastOp,
          getPeers, knownChatPeers, relayPeerId, stats, pollErrors, emitted,
          pending, nCmds, lastCmd, lastPoll,
          codeToEntry, peerToCode, issued, nReqs, lastReq, inviteCode, timers,
          lastRun, identityFile, configFile, instances, nStarts, lastStart,
          stream, buffer, inbox, wires, sending, replies,
          reachable, attempts, nDrops,
          localStorage, knownPeersReconnected, nAdds, lastUi>>

\* ----------------------------------------------------------------- helpers

Min(a, b) == IF a < b THEN a ELSE b

Range(s) == {s[i] : i \in 1..Len(s)}

\* The last n elements of s.
LastN(s, n) == SubSeq(s, Len(s) - Min(Len(s), n) + 1, Len(s))

\* ------------------------------------------------------------ relay inputs

PeerIds == {"A", "B", "C"}
Recipients == {"A", "B"}

\* A string: either the JSON text of an object { channelId, data } (the chat
\* envelope JSON.stringify({ channelId, data }) builds) or text JSON.parse
\* rejects.
Envelope(c, d) == [json |-> "object", channelId |-> c, data |-> d]
Text(d) == [json |-> "invalid", channelId |-> "", data |-> d]

\* Bodies of the /send requests the relay answers with 200.
SendBodies ==
  { [to |-> "B", from |-> "A", channelId |-> "general", data |-> Envelope("general", "ping")],
    [to |-> "B", from |-> "C", channelId |-> "dm", data |-> Text("raw")],
    [to |-> "A", from |-> "B", channelId |-> "general", data |-> Envelope("general", "pong")] }

\* The overflow scenario: this many /send requests for one recipient arrive
\* back to back at a relay that has handled no /send yet.
BurstLen == MSG_MAX_PER_PEER + 5

\* Values of the since query parameter after parseInt.
SinceValues == {0, 2 * TickMs, NaN}

\* The last step's records when the step was of another kind.
NoOp == [op |-> "none", peer |-> "", since |-> 0,
         before |-> <<>>, expected |-> {}, result |-> <<>>]

NoCmd == [node |-> "", cmd |-> [channelId |-> "", data |-> "", targetPeerId |-> ""],
          calls |-> << >>]

NoPoll == [node |-> "", http |-> "", queue |-> <<>>, pending |-> {},
           result |-> <<>>]

NoReq == [path |-> "", askedPeerId |-> "", askedCode |-> <<>>, status |-> 0,
          code |-> <<>>, peerId |-> ""]

NoRun == [node |-> "", fn |-> "", address |-> <<>>, requests |-> <<>>,
          dials |-> <<>>, events |-> <<>>]

\* A peer process that is not running, and a startup step that was not taken.
Off == [pc |-> "off", run |-> 0, port |-> 0, conflict |-> FALSE,
        checked |-> 0, foundInUse |-> FALSE, privateKey |-> 0,
        isNew |-> FALSE, isEphemeral |-> FALSE, wrote |-> FALSE, bound |-> 0]

\* The files of the data directory: absent, not JSON, or a JSON object.
NoIdentityFile == [kind |-> "none", privateKey |-> <<>>]

NoConfigFile == [kind |-> "none", port |-> 0]

NoStart == [inst |-> "", step |-> "", before |-> <<>>, bindFailed |-> FALSE,
            first |-> "", retryFailed |-> FALSE, port |-> 0, newPort |-> 0,
            config |-> NoConfigFile, calls |-> 0, events |-> <<>>,
            exited |-> FALSE, exitCode |-> 0]

Instances == {"i1", "i2"}

\* No peer process is started on the data directory.
StartupIdle ==
  /\ identityFile = NoIdentityFile
  /\ configFile = NoConfigFile
  /\ instances = [i \in Instances |-> Off]
  /\ nStarts = 0
  /\ lastStart = NoStart

\* No chat stream is open and nothing is queued for the receiving node.
NoStream == [open |-> FALSE, chunks |-> <<>>, from |-> "", seq |-> 0]

WireIdle ==
  /\ stream = NoStream
  /\ buffer = <<>>
  /\ inbox = <<>>
  /\ wires = <<>>

\* No request or response is under way.
NetworkIdle == sending = {} /\ replies = {}

\* The relay is reachable and no reconnection is under way.
NoAttempts == [timer |-> 0, info |-> 0, dial |-> 0, register |-> 0,
               retried |-> 0, dialed |-> 0, registered |-> 0]

ReconnectIdle == reachable = TRUE /\ attempts = NoAttempts /\ nDrops = 0

\* The app has stored no peer and handled no event.
NoUi == [type |-> "", ok |-> FALSE, address |-> <<>>, before |-> <<>>,
         first |-> FALSE, dials |-> <<>>]

AppIdle ==
  /\ localStorage = <<>>
  /\ knownPeersReconnected = FALSE
  /\ nAdds = 0
  /\ lastUi = NoUi

InitOther == StartupIdle /\ WireIdle /\ NetworkIdle /\ ReconnectIdle /\ AppIdle

\* The step is none of the relay's registry, of its HTTP server as a whole,
\* of a node's dial command or of its registration and reconnection timers.
NoRegistryOrSessionStep ==
  /\ UNCHANGED <<codeToEntry, peerToCode, issued, nReqs, inviteCode, timers>>
  /\ UNCHANGED otherVars
  /\ lastReq' = NoReq
  /\ lastRun' = NoRun

\* ------------------------------------------------------------ relay queue

\* Map.get with the queue's "absent or empty" reading.
QueueOf(queues, peerId) ==
  IF peerId \in DOMAIN queues THEN queues[peerId] ELSE <<>>

\* Map.set
MapSet(queues, peerId, q) == (peerId :> q) @@ queues

\* while (queue.length > MSG_MAX_PER_PEER) queue.shift();
TrimWrong(queue) == SubSeq(queue, 1, Min(Len(queue), MSG_MAX_PER_PEER))
Trim(queue) == LastN(queue, MSG_MAX_PER_PEER)

\* queue.push({ from, channelId, data, ts: Date.now() }); seq is the ghost
\* number of the enqueue, to the ghost copy of the recipient it was for.
PushWrong(queue, m) == <<m>> \o queue
Push(queue, m) == Append(queue, m)

\* enqueueMessage(toPeerId, fromPeerId, channelId, data) at clock t; the
\* message gets ghost number seq.
enqueueForSender(queues, toPeerId, fromPeerId, channelId, data, t, seq) ==
  LET queue == QueueOf(queues, fromPeerId)
      m == [from |-> fromPeerId, channelId |-> channelId, data |-> data,
            ts |-> t, seq |-> seq, to |-> toPeerId]
  IN  MapSet(queues, fromPeerId, Trim(Push(queue, m)))
enqueueMessage(queues, toPeerId, fromPeerId, channelId, data, t, seq) ==
  LET queue == QueueOf(queues, toPeerId)
      m == [from |-> fromPeerId, channelId |-> channelId, data |-> data,
            ts |-> t, seq |-> seq, to |-> toPeerId]
  IN  MapSet(queues, toPeerId, Trim(Push(queue, m)))

\* m.ts > since && (now - m.ts) < MSG_TTL_MS
FreshWrong(m, since, t) == since # NaN /\ m.ts > since
Fresh(m, since, t) == since # NaN /\ m.ts > since /\ (t - m.ts) < MSG_TTL_MS

\* dequeueMessages: the array returned.
dequeueResult(queues, peerId, since, t) ==
  LET queue == QueueOf(queues, peerId)
      Keep(m) == Fresh(m, since, t)
  IN  IF queue = <<>> THEN <<>> ELSE SelectSeq(queue, Keep)

\* dequeueMessages: the queues afterwards.
dequeueKeepsQueue(queues, peerId) == queues
dequeueClearAll(queues, peerId) == << >>
dequeueKeepStale(queues, peerId) ==
  LET Stale(m) == (now - m.ts) >= MSG_TTL_MS
  IN  IF QueueOf(queues, peerId) = <<>> THEN queues
      ELSE MapSet(queues, peerId, SelectSeq(QueueOf(queues, peerId), Stale))
dequeueClear(queues, peerId) ==
  IF QueueOf(queues, peerId) = <<>> THEN queues ELSE MapSet(queues, peerId, <<>>)

\* The body of the 60 s sweep timer.
sweepQueues(queues, t) ==
  LET Live(m) == (t - m.ts) < MSG_TTL_MS
      keep == {p \in DOMAIN queues : SelectSeq(queues[p], Live) # <<>>}
  IN  [p \in keep |-> SelectSeq(queues[p], Live)]

\* ------------------------------------------------------------ relay actions

NoBurst == [left |-> 0, body |-> <<>>]

\* The relay has just started, at a positive clock value.
InitRelay ==
  /\ messageQueues = << >>
  /\ now = TickMs
  /\ enqCount = 0
  /\ returned = [p \in Recipients |-> {}]
  /\ unswept = [p \in Recipients |-> {}]
  /\ nSends = 0
  /\ nPolls = 0
  /\ nTicks = 0
  /\ burst = NoBurst
  /\ lastOp = NoOp
  /\ codeToEntry = << >>
  /\ peerToCode = << >>
  /\ issued = << >>
  /\ nReqs = 0
  /\ lastReq = NoReq

\* The clock advances.
Tick ==
  /\ burst.left = 0
  /\ nTicks < MaxTicks
  /\ now' = now + TickMs
  /\ nTicks' = nTicks + 1
  /\ lastOp' = [NoOp EXCEPT !.op = "tick"]
  /\ UNCHANGED <<messageQueues, enqCount, returned, unswept, nSends, nPolls, burst>>
  /\ UNCHANGED peerVars
  /\ lastCmd' = NoCmd /\ lastPoll' = NoPoll
  /\ NoRegistryOrSessionStep

\* The message enqueueMessage builds for the body of a /send request.
QueuedMessage(body, t, seq) ==
  [from |-> body.from, channelId |-> body.channelId, data |-> body.data,
   ts |-> t, seq |-> seq, to |-> body.to]

\* The /send handler on well-formed bodies, one request after the other:
\* enqueue and answer 200.
RECURSIVE enqueueAll(_, _, _, _)
enqueueAll(queues, bodies, t, seq) ==
  IF bodies = <<>> THEN queues
  ELSE enqueueAll(
         enqueueMessage(queues, Head(bodies).to, Head(bodies).from,
                        Head(bodies).channelId, Head(bodies).data, t, seq + 1),
         Tail(bodies), t, seq + 1)

HandleSends(bodies) ==
  /\ messageQueues' = enqueueAll(messageQueues, bodies, now, enqCount)
  /\ enqCount' = enqCount + Len(bodies)
  /\ unswept' = [p \in Recipients |->
                   unswept[p] \cup {QueuedMessage(bodies[i], now, enqCount + i) :
                                      i \in {j \in 1..Len(bodies) : bodies[j].to = p}}]
  /\ lastOp' = IF bodies = <<>> THEN NoOp
               ELSE [NoOp EXCEPT !.op = "send", !.peer = bodies[Len(bodies)].to,
                       !.before = QueueOf(enqueueAll(messageQueues,
                                                     SubSeq(bodies, 1, Len(bodies) - 1),
                                                     now, enqCount),
                                          bodies[Len(bodies)].to)]

\* The /poll handler.
HandlePoll(peerId, since) ==
  /\ messageQueues' = dequeueClear(messageQueues, peerId)
  /\ returned' = [returned EXCEPT ![peerId] =
                     @ \cup {m.seq : m \in Range(dequeueResult(messageQueues, peerId,
                                                                since, now))}]
  /\ unswept' = [unswept EXCEPT ![peerId] = {}]
  /\ lastOp' = [op |-> "poll", peer |-> peerId, since |-> since,
                before |-> QueueOf(messageQueues, peerId),
                expected |-> unswept[peerId],
                result |-> dequeueResult(messageQueues, peerId, since, now)]

\* POST /send, one request.
RelaySend(body) ==
  /\ burst.left = 0
  /\ nSends < MaxSends
  /\ HandleSends(<<body>>)
  /\ nSends' = nSends + 1
  /\ UNCHANGED <<now, returned, nPolls, nTicks, burst>>
  /\ UNCHANGED peerVars
  /\ lastCmd' = NoCmd /\ lastPoll' = NoPoll
  /\ NoRegistryOrSessionStep

\* POST /send, the first request of a burst of BurstLen equal requests.
RelaySendBurst(body) ==
  /\ burst.left = 0
  /\ enqCount = 0
  /\ nSends < MaxSends
  /\ HandleSends(<<body>>)
  /\ nSends' = nSends + 1
  /\ burst' = [left |-> BurstLen - 1, body |-> body]
  /\ UNCHANGED <<now, returned, nPolls, nTicks>>
  /\ UNCHANGED peerVars
  /\ lastCmd' = NoCmd /\ lastPoll' = NoPoll
  /\ NoRegistryOrSessionStep

\* POST /send, the next request of the burst.
RelaySendNext ==
  /\ burst.left > 0
  /\ HandleSends(<<burst.body>>)
  /\ burst' = IF burst.left = 1 THEN NoBurst ELSE [burst EXCEPT !.left = @ - 1]
  /\ UNCHANGED <<now, returned, nSends, nPolls, nTicks>>
  /\ UNCHANGED peerVars
  /\ lastCmd' = NoCmd /\ lastPoll' = NoPoll
  /\ NoRegistryOrSessionStep

\* GET /poll?peerId=..&since=..
RelayPoll(peerId, since) ==
  /\ burst.left = 0
  /\ nPolls < MaxPolls
  /\ HandlePoll(peerId, since)
  /\ nPolls' = nPolls + 1
  /\ UNCHANGED <<now, enqCount, nSends, nTicks, burst>>
  /\ UNCHANGED peerVars
  /\ lastCmd' = NoCmd /\ lastPoll' = NoPoll
  /\ NoRegistryOrSessionStep

\* The sweep timer fires.
Sweep ==
  /\ burst.left = 0
  /\ messageQueues' = sweepQueues(messageQueues, now)
  /\ unswept' = [p \in Recipients |-> {}]
  /\ lastOp' = [NoOp EXCEPT !.op = "sweep"]
  /\ UNCHANGED <<now, enqCount, returned, nSends, nPolls, nTicks, burst>>
  /\ UNCHANGED peerVars
  /\ lastCmd' = NoCmd /\ lastPoll' = NoPoll
  /\ NoRegistryOrSessionStep

\* ------------------------------------------------------ invite registry

\* Strings that are looked at character by character (invite codes, dial
\* addresses) are sequences of one-character strings.  No code: null.
NoCode == << >>

\* String.prototype.toUpperCase on the letters the model uses.
UpperOf == [c \in {"a", "b", "c", "d"} |->
              IF c = "a" THEN "A" ELSE IF c = "b" THEN "B"
              ELSE IF c = "c" THEN "C" ELSE "D"]
toUpperCase(str) ==
  [i \in 1..Len(str) |-> IF str[i] \in DOMAIN UpperOf THEN UpperOf[str[i]] ELSE str[i]]

\* generateCode: the codes it can return (four characters of the alphabet,
\* '-', four characters).
GeneratedCodes ==
  { <<"A", "B", "C", "D", "-", "2", "3", "4", "5">>,
    <<"D", "C", "B", "A", "-", "5", "4", "3", "2">>,
    <<"A", "A", "B", "B", "-", "2", "2", "3", "3">> }

\* do { code = generateCode(); } while (codeToEntry.has(code));
FreshCodes(c2e) == GeneratedCodes \ DOMAIN c2e

\* Map.delete
MapDelete(map, keys) == [k \in DOMAIN map \ keys |-> map[k]]

\* registerPeer(peerId) at clock t, fresh being the code the generation loop
\* ends with: the code returned and the maps afterwards.
registerPeerAlwaysNew(c2e, p2c, peerId, t, fresh) ==
  [code |-> fresh,
   codeToEntry |-> (fresh :> [peerId |-> peerId, lastSeen |-> t]) @@ c2e,
   peerToCode |-> (peerId :> fresh) @@ p2c]
registerPeer(c2e, p2c, peerId, t, fresh) ==
  IF peerId \in DOMAIN p2c /\ p2c[peerId] \in DOMAIN c2e
  THEN [code |-> p2c[peerId],
        codeToEntry |-> [c2e EXCEPT ![p2c[peerId]].lastSeen = t],
        peerToCode |-> p2c]
  ELSE [code |-> fresh,
        codeToEntry |-> (fresh :> [peerId |-> peerId, lastSeen |-> t]) @@ c2e,
        peerToCode |-> (peerId :> fresh) @@ p2c]

\* A lookup that finds the entry and leaves its lastSeen as it was.
lookupCodeNoRefresh(c2e, code, t) ==
  LET key == toUpperCase(code)
  IN  IF key \in DOMAIN c2e
      THEN [found |-> TRUE, peerId |-> c2e[key].peerId, codeToEntry |-> c2e]
      ELSE [found |-> FALSE, peerId |-> "", codeToEntry |-> c2e]

\* lookupCode(code) at clock t: found, the entry's peerId, and codeToEntry
\* afterwards.
lookupCodeExact(c2e, code, t) ==
  IF code \in DOMAIN c2e
  THEN [found |-> TRUE, peerId |-> c2e[code].peerId,
        codeToEntry |-> [c2e EXCEPT ![code].lastSeen = t]]
  ELSE [found |-> FALSE, peerId |-> "", codeToEntry |-> c2e]
lookupCode(c2e, code, t) ==
  LET key == toUpperCase(code)
  IN  IF key \in DOMAIN c2e
      THEN [found |-> TRUE, peerId |-> c2e[key].peerId,
            codeToEntry |-> [c2e EXCEPT ![key].lastSeen = t]]
      ELSE [found |-> FALSE, peerId |-> "", codeToEntry |-> c2e]

\* cleanupExpired at clock t: the maps afterwards.
cleanupCodesOnly(c2e, p2c, t) ==
  LET expired == {c \in DOMAIN c2e : t - c2e[c].lastSeen > CODE_TTL_MS}
  IN  [codeToEntry |-> MapDelete(c2e, expired), peerToCode |-> p2c]
cleanupExpired(c2e, p2c, t) ==
  LET expired == {c \in DOMAIN c2e : t - c2e[c].lastSeen > CODE_TTL_MS}
  IN  [codeToEntry |-> MapDelete(c2e, expired),
       peerToCode |-> MapDelete(p2c, {c2e[c].peerId : c \in expired})]

\* ------------------------------------------------------- relay HTTP server

\* A JSON value that is not a string and has no slice method (a number), as
\* a field of a /send body; the empty string stands for every falsy value.
NotAString == "<7>"
hasSlice(v) == v # NotAString
\* A data field that is absent.
Undefined == [json |-> "undefined", channelId |-> "", data |-> ""]

\* The branch of the request handler a request takes.
Route(req) ==
  IF req.path = "/health" THEN "health"
  ELSE IF req.path = "/register" THEN "register"
  ELSE IF req.path = "/lookup" THEN "lookup"
  ELSE IF req.path = "/send" /\ req.method = "POST" THEN "send"
  ELSE IF req.path = "/poll" THEN "poll"
  ELSE IF req.path = "/info" THEN "info"
  ELSE "notFound"

\* POST /send: whether enqueueMessage is called, and the status answered.
\* The console.log after enqueueMessage calls msg.from.slice and
\* msg.to.slice; a TypeError there lands in the catch that answers 400.
sendRequest(body) ==
  IF body.json # "object" THEN [enqueue |-> FALSE, status |-> 400]
  ELSE IF body.to = "" \/ body.from = "" \/ body.channelId = "" \/ body.data = Undefined
  THEN [enqueue |-> FALSE, status |-> 400]
  ELSE IF ~hasSlice(body.from) \/ ~hasSlice(body.to)
  THEN [enqueue |-> TRUE, status |-> 400]
  ELSE [enqueue |-> TRUE, status |-> 200]

\* The status answered to a request.
StatusOf(req, c2e) ==
  LET route == Route(req)
  IN  IF route = "register" THEN (IF req.peerId = "" THEN 400 ELSE 200)
      ELSE IF route = "lookup"
      THEN (IF req.code = NoCode THEN 400
            ELSE IF lookupCode(c2e, req.code, 0).found THEN 200 ELSE 404)
      ELSE IF route = "send" THEN sendRequest(req.body).status
      ELSE IF route = "poll" THEN (IF req.peerId = "" THEN 400 ELSE 200)
      ELSE IF route = "notFound" THEN 404
      ELSE 200

\* str is code in some letter case.
LowerOf == [c \in {"A", "B", "C", "D"} |->
              IF c = "A" THEN "a" ELSE IF c = "B" THEN "b"
              ELSE IF c = "C" THEN "c" ELSE "d"]
SameCode(str, code) ==
  /\ Len(str) = Len(code)
  /\ \A i \in 1..Len(code) :
       \/ str[i] = code[i]
       \/ code[i] \in DOMAIN LowerOf /\ str[i] = LowerOf[code[i]]

\* The ghost record of the codes issued, after a request answered with a
\* code (/register) or with a peer-id (/lookup).
IssuedAfter(req, status, code, peerId) ==
  IF Route(req) = "register" /\ status = 200
  THEN (req.peerId :>
          [code |-> code,
           first |-> IF req.peerId \in DOMAIN issued /\ issued[req.peerId].code = code
                     THEN issued[req.peerId].first ELSE now,
           registered |-> now, touched |-> now,
           before |-> IF req.peerId \in DOMAIN issued /\ issued[req.peerId].code = code
                      THEN issued[req.peerId].touched ELSE now]) @@ issued
  ELSE IF Route(req) = "lookup" /\ status = 200
  THEN [p \in DOMAIN issued |->
          IF p = peerId /\ SameCode(req.code, issued[p].code)
          THEN [issued[p] EXCEPT !.touched = now, !.before = issued[p].touched]
          ELSE issued[p]]
  ELSE issued

\* The request handler of the HTTP server, fresh being the code a
\* generation loop would end with: what it does to the relay's state.
Serve(req, fresh) ==
  LET route == Route(req)
      status == StatusOf(req, codeToEntry)
      reg == registerPeer(codeToEntry, peerToCode, req.peerId, now, fresh)
      look == lookupCode(codeToEntry, req.code, now)
  IN  /\ codeToEntry' = IF route = "register" /\ req.peerId # "" THEN reg.codeToEntry
                        ELSE IF route = "lookup" /\ req.code # NoCode THEN look.codeToEntry
                        ELSE codeToEntry
      /\ peerToCode' = IF route = "register" /\ req.peerId # "" THEN reg.peerToCode
                       ELSE peerToCode
      /\ IF route = "send" /\ sendRequest(req.body).enqueue
         THEN HandleSends(<<req.body>>) /\ UNCHANGED returned
         ELSE IF route = "poll" /\ req.peerId # ""
         THEN HandlePoll(req.peerId, req.since) /\ UNCHANGED enqCount
         ELSE /\ lastOp' = NoOp
              /\ UNCHANGED <<messageQueues, enqCount, returned, unswept>>
      /\ lastReq' = [path |-> req.path, askedPeerId |-> req.peerId,
                     askedCode |-> req.code, status |-> status,
                     code |-> IF route = "register" /\ status = 200 THEN reg.code
                              ELSE NoCode,
                     peerId |-> IF route = "lookup" /\ status = 200 THEN look.peerId
                                ELSE ""]
      /\ issued' = IssuedAfter(req, status,
                               IF route = "register" /\ status = 200 THEN reg.code
                               ELSE NoCode,
                               IF route = "lookup" /\ status = 200 THEN look.peerId
                               ELSE "")

\* No request reaches the relay.
NotServed ==
  /\ UNCHANGED <<codeToEntry, peerToCode, issued>>
  /\ UNCHANGED <<messageQueues, enqCount, returned, unswept>>
  /\ lastReq' = NoReq
  /\ lastOp' = NoOp

\* A request of some HTTP client.
RelayRequest(req, fresh) ==
  /\ burst.left = 0
  /\ nReqs < MaxRequests
  /\ nReqs' = nReqs + 1
  /\ Serve(req, fresh)
  /\ UNCHANGED <<now, nSends, nPolls, nTicks, burst>>
  /\ UNCHANGED peerVars
  /\ UNCHANGED inviteCode
  /\ UNCHANGED otherVars
  /\ lastCmd' = NoCmd /\ lastPoll' = NoPoll /\ lastRun' = NoRun

\* The registry's cleanup timer fires.
CleanupExpired ==
  LET swept == cleanupExpired(codeToEntry, peerToCode, now)
  IN  /\ codeToEntry' = swept.codeToEntry
      /\ peerToCode' = swept.peerToCode
      /\ lastReq' = [NoReq EXCEPT !.path = "cleanup"]
      /\ UNCHANGED <<issued, nReqs, inviteCode>>
      /\ UNCHANGED relayVars
      /\ UNCHANGED peerVars
      /\ UNCHANGED otherVars
      /\ lastOp' = NoOp /\ lastCmd' = NoCmd /\ lastPoll' = NoPoll /\ lastRun' = NoRun

\* The clock advances by half the codes' time to live.
Elapse ==
  /\ nTicks < MaxTicks
  /\ now' = now + (CODE_TTL_MS \div 2)
  /\ nTicks' = nTicks + 1
  /\ UNCHANGED <<messageQueues, enqCount, returned, unswept, nSends, nPolls, burst>>
  /\ UNCHANGED peerVars
  /\ lastOp' = [NoOp EXCEPT !.op = "tick"]
  /\ lastCmd' = NoCmd /\ lastPoll' = NoPoll
  /\ NoRegistryOrSessionStep

\* -------------------------------------------------------------- peer node

\* The peer processes of the model, and the relay's overlay peer-id.
Nodes == {"A", "B"}
RelayId == "R"
\* null / undefined / a missing field: falsy, like the empty string.
Null == ""
DEFAULT_CHANNEL == "general"

\* a || b
Or(a, b) == IF a = Null THEN b ELSE a

\* What can become of one HTTP request to the relay:
\*   ok            handled, answered 200, the answer arrives
\*   errorJson     not handled: answered with an error status and a JSON
\*                 { error } body
\*   failed        not handled: network error, timeout, or an answer whose
\*                 body is not JSON
\*   responseLost  handled by the relay, the answer is lost or times out
HttpOutcomes == {"ok", "errorJson", "failed", "responseLost"}

\* The relay's handler ran.
Handled(http) == http \in {"ok", "responseLost"}

\* postJson / fetchJson: the promise resolves whenever the response body
\* parses as JSON; the status code is not looked at.
Resolves(http) == http \in {"ok", "errorJson"}

\* What can become of one sendTo call: the direct stream attempt (when one
\* is made) and the relay request (when one is made).
CallOutcomes ==
  {o \in [direct : {"ok", "fail"}, http : HttpOutcomes] :
     o.direct = "ok" => o.http = "ok"}

\* sendViaRelay(fromPeerId, toPeerId, channelId, data): the record of the call.
sendViaRelay(fromPeerId, toPeerId, channelId, data, http) ==
  [fn |-> "sendViaRelay", to |-> toPeerId, direct |-> "none",
   posts |-> <<[to |-> toPeerId, from |-> fromPeerId, channelId |-> channelId,
                data |-> data, http |-> http]>>,
   sent |-> IF Resolves(http) THEN 1 ELSE 0,
   sendFail |-> IF Resolves(http) THEN 0 ELSE 1]

\* sendToPeer(node, peerId, payload, myPeerId), connected being node.getPeers().
sendToPeerNoFallback(connected, peerId, payload, myPeerId, oc) ==
  IF peerId \in connected
  THEN [fn |-> "sendToPeer", to |-> peerId, direct |-> oc.direct, posts |-> <<>>,
        sent |-> IF oc.direct = "ok" THEN 1 ELSE 0,
        sendFail |-> IF oc.direct = "ok" THEN 0 ELSE 1]
  ELSE [sendViaRelay(myPeerId, peerId, Or(payload.channelId, DEFAULT_CHANNEL),
                     payload, oc.http)
          EXCEPT !.fn = "sendToPeer", !.direct = "skipped"]
sendToPeer(connected, peerId, payload, myPeerId, oc) ==
  IF peerId \in connected /\ oc.direct = "ok"
  THEN [fn |-> "sendToPeer", to |-> peerId, direct |-> "ok", posts |-> <<>>,
        sent |-> 1, sendFail |-> 0]
  ELSE IF payload.json # "object"
  THEN [fn |-> "sendToPeer", to |-> peerId,
        direct |-> IF peerId \in connected THEN "failed" ELSE "skipped",
        posts |-> <<>>, sent |-> 0, sendFail |-> 1]
  ELSE [sendViaRelay(myPeerId, peerId, Or(payload.channelId, DEFAULT_CHANNEL),
                     payload, oc.http)
          EXCEPT !.fn = "sendToPeer",
                 !.direct = IF peerId \in connected THEN "failed" ELSE "skipped"]

\* The order in which a set of peer-ids is iterated.
PeerOrder == <<"A", "B", "C", "R">>
InOrder(S) == LET In(p) == p \in S IN SelectSeq(PeerOrder, In)

\* sendToAllPeers: the targets.
allTargetsWithRelay(connected, known, relayId, myPeerId) ==
  (connected \cup known) \ {myPeerId}
allTargets(connected, known, relayId, myPeerId) ==
  LET connectedPeerIds == {q \in connected : relayId = Null \/ q # relayId}
  IN  ((connectedPeerIds \cup known)
         \ (IF relayId # Null THEN {relayId} ELSE {}))
         \ (IF myPeerId # Null THEN {myPeerId} ELSE {})

\* sendToAllPeers(node, payload, relayId, myPeerId): the calls it makes, oc
\* giving what becomes of each.
sendToAllPeers(connected, known, payload, relayId, myPeerId, oc) ==
  LET targets == InOrder(allTargets(connected, known, relayId, myPeerId))
  IN  [i \in 1..Len(targets) |->
         IF targets[i] \in connected
         THEN sendToPeer(connected, targets[i], payload, myPeerId, oc[targets[i]])
         ELSE sendViaRelay(myPeerId, targets[i],
                           Or(payload.channelId, DEFAULT_CHANNEL), payload,
                           oc[targets[i]].http)]

\* The stdin 'send' command with a targetPeerId.
sendTargetedAsBroadcast(connected, known, cmd, relayId, myPeerId, oc) ==
  sendToAllPeers(connected, known,
                 Envelope(Or(cmd.channelId, DEFAULT_CHANNEL), cmd.data),
                 relayId, myPeerId,
                 [p \in allTargets(connected, known, relayId, myPeerId) |->
                    oc[cmd.targetPeerId]])
sendTargeted(connected, known, cmd, relayId, myPeerId, oc) ==
  LET channelId == Or(cmd.channelId, DEFAULT_CHANNEL)
      payload == Envelope(channelId, cmd.data)
  IN  IF cmd.targetPeerId \in connected
      THEN <<sendToPeer(connected, cmd.targetPeerId, payload, myPeerId,
                        oc[cmd.targetPeerId])>>
      ELSE <<sendViaRelay(myPeerId, cmd.targetPeerId, channelId, payload,
                          oc[cmd.targetPeerId].http)>>

\* The stdin 'send' command: the sendTo calls it makes.
sendCommand(connected, known, cmd, relayId, myPeerId, oc) ==
  IF cmd.targetPeerId # Null
  THEN sendTargeted(connected, known, cmd, relayId, myPeerId, oc)
  ELSE sendToAllPeers(connected, known,
                      Envelope(Or(cmd.channelId, DEFAULT_CHANNEL), cmd.data),
                      relayId, myPeerId, oc)

\* The peers a send command can make calls to.
CommandTargets(connected, known, cmd, relayId, myPeerId) ==
  IF cmd.targetPeerId # Null THEN {cmd.targetPeerId}
  ELSE allTargets(connected, known, relayId, myPeerId)

RECURSIVE SumOf(_, _)
SumOf(calls, field) ==
  IF calls = <<>> THEN 0
  ELSE (IF field = "sent" THEN Head(calls).sent ELSE Head(calls).sendFail)
       + SumOf(Tail(calls), field)

\* The /send requests of the calls, in call order.
RECURSIVE PostsOf(_)
PostsOf(calls) ==
  IF calls = <<>> THEN <<>> ELSE Head(calls).posts \o PostsOf(Tail(calls))

\* The request bodies among posts that the relay's handler gets to see.
HandledBodies(posts) ==
  LET IsHandled(q) == Handled(q.http)
      h == SelectSeq(posts, IsHandled)
  IN  [i \in 1..Len(h) |-> [to |-> h[i].to, from |-> h[i].from,
                            channelId |-> h[i].channelId, data |-> h[i].data]]

\* pollRelayMessages: the since parameter of the /poll request made at
\* clock t.
pollSinceNow(t) == t
pollSince(t) == 0

\* pollRelayMessages: the message event emitted for one polled message.  The
\* value of a string that is not JSON is its data field.
pollEvent(msg) ==
  IF msg.data.json = "object"
  THEN [type |-> "message",
        channelId |-> Or(msg.data.channelId, Or(msg.channelId, DEFAULT_CHANNEL)),
        data |-> msg.data.data, from |-> msg.from]
  ELSE [type |-> "message", channelId |-> Or(msg.channelId, DEFAULT_CHANNEL),
        data |-> msg.data.data, from |-> msg.from]

pollEvents(messages) == [i \in 1..Len(messages) |-> pollEvent(messages[i])]

\* ------------------------------------------------------------ peer actions

SendCmds ==
  { [channelId |-> Null, data |-> "ping", targetPeerId |-> Null],
    [channelId |-> "dm", data |-> "hello", targetPeerId |-> "B"],
    [channelId |-> "dm", data |-> "ping", targetPeerId |-> "C"] }

InitPeers ==
  /\ getPeers = [n \in Nodes |-> {}]
  /\ relayPeerId \in [Nodes -> {RelayId, Null}]
  /\ stats = [n \in Nodes |-> [sent |-> 0, sendFail |-> 0, recv |-> 0, recvFail |-> 0]]
  /\ pollErrors = [n \in Nodes |-> 0]
  /\ emitted = [n \in Nodes |-> <<>>]
  /\ pending = [n \in Nodes |-> {}]
  /\ nCmds = 0
  /\ lastCmd = NoCmd
  /\ lastPoll = NoPoll
  /\ inviteCode = [n \in Nodes |-> NoCode]
  /\ timers = [n \in Nodes |-> IF relayPeerId[n] # Null THEN {"registerInviteCode"}
                                ELSE {}]
  /\ lastRun = NoRun

\* The overlay's peer:connect event.
PeerConnect(n, pid) ==
  /\ pid \notin getPeers[n]
  /\ getPeers' = [getPeers EXCEPT ![n] = @ \cup {pid}]
  /\ knownChatPeers' = IF pid # relayPeerId[n]
                       THEN [knownChatPeers EXCEPT ![n] = @ \cup {pid}]
                       ELSE knownChatPeers
  /\ UNCHANGED <<relayPeerId, stats, pollErrors, emitted, pending, nCmds>>
  /\ UNCHANGED relayVars
  /\ lastOp' = NoOp /\ lastCmd' = NoCmd /\ lastPoll' = NoPoll
  /\ NoRegistryOrSessionStep

\* The overlay's peer:disconnect event.
knownAfterDisconnectForgets(known, pid) == known \ {pid}
knownAfterDisconnect(known, pid) == known
PeerDisconnect(n, pid) ==
  /\ pid \in getPeers[n]
  /\ getPeers' = [getPeers EXCEPT ![n] = @ \ {pid}]
  /\ knownChatPeers' = [knownChatPeers EXCEPT ![n] = knownAfterDisconnect(@, pid)]
  /\ timers' = IF relayPeerId[n] # Null /\ pid = relayPeerId[n]
               THEN [timers EXCEPT ![n] = @ \cup {"reconnectRelay"}]
               ELSE timers
  /\ UNCHANGED <<relayPeerId, stats, pollErrors, emitted, pending, nCmds>>
  /\ UNCHANGED relayVars
  /\ UNCHANGED <<codeToEntry, peerToCode, issued, nReqs, inviteCode>>
  /\ UNCHANGED otherVars
  /\ lastOp' = NoOp /\ lastCmd' = NoCmd /\ lastPoll' = NoPoll
  /\ lastReq' = NoReq /\ lastRun' = NoRun

\* The stdin 'dial' command with an invite code that /lookup resolves to pid.
DialInvite(n, pid) ==
  /\ knownChatPeers' = [knownChatPeers EXCEPT ![n] = @ \cup {pid}]
  /\ UNCHANGED <<getPeers, relayPeerId, stats, pollErrors, emitted, pending, nCmds>>
  /\ UNCHANGED relayVars
  /\ lastOp' = NoOp /\ lastCmd' = NoCmd /\ lastPoll' = NoPoll
  /\ NoRegistryOrSessionStep

\* The stdin 'send' command, oc giving what becomes of each sendTo call.
SendCmd(n, cmd, oc) ==
  LET calls == sendCommand(getPeers[n], knownChatPeers[n], cmd, relayPeerId[n], n, oc)
      bodies == HandledBodies(PostsOf(calls))
  IN  /\ nCmds' = nCmds + 1
      /\ stats' = [stats EXCEPT ![n].sent = @ + SumOf(calls, "sent"),
                                ![n].sendFail = @ + SumOf(calls, "sendFail")]
      /\ HandleSends(bodies)
      /\ pending' = [m \in Nodes |->
                       pending[m] \cup
                         {[seq |-> enqCount + i, ts |-> now, from |-> n,
                           channelId |-> Or(cmd.channelId, DEFAULT_CHANNEL),
                           data |-> cmd.data, drained |-> FALSE] :
                            i \in {j \in 1..Len(bodies) : bodies[j].to = m}}]
      /\ lastCmd' = [node |-> n, cmd |-> cmd, calls |-> calls]
      /\ lastPoll' = NoPoll
      /\ NoRegistryOrSessionStep
      /\ UNCHANGED <<getPeers, knownChatPeers, relayPeerId, pollErrors, emitted>>
      /\ UNCHANGED <<now, returned, nSends, nPolls, nTicks, burst>>

\* One run of pollRelayMessages, http giving what becomes of the request.
PeerPoll(n, http) ==
  LET since == pollSince(now)
      result == dequeueResult(messageQueues, n, since, now)
  IN  /\ relayPeerId[n] # Null
      /\ nPolls < MaxPolls
      /\ nPolls' = nPolls + 1
      /\ IF Handled(http)
         THEN HandlePoll(n, since)
         ELSE /\ lastOp' = NoOp
              /\ UNCHANGED <<messageQueues, returned, unswept>>
      /\ pollErrors' = [pollErrors EXCEPT ![n] = IF Resolves(http) THEN 0 ELSE @ + 1]
      /\ stats' = IF http = "ok"
                  THEN [stats EXCEPT ![n].recv = @ + Len(result)]
                  ELSE stats
      /\ emitted' = IF http = "ok"
                    THEN [emitted EXCEPT ![n] = @ \o pollEvents(result)]
                    ELSE emitted
      /\ pending' = IF http = "ok" THEN [pending EXCEPT ![n] = {}]
                    ELSE IF Handled(http)
                    THEN [pending EXCEPT ![n] = {[m EXCEPT !.drained = TRUE] : m \in @}]
                    ELSE pending
      /\ lastPoll' = [node |-> n, http |-> http,
                      queue |-> QueueOf(messageQueues, n),
                      pending |-> pending[n],
                      result |-> IF Handled(http) THEN result ELSE <<>>]
      /\ lastCmd' = NoCmd
      /\ NoRegistryOrSessionStep
      /\ UNCHANGED <<getPeers, knownChatPeers, relayPeerId, nCmds>>
      /\ UNCHANGED <<now, enqCount, nSends, nTicks, burst>>

\* ------------------------------------------------------------ peer session

\* reg.code of a response that has no code field.
UndefinedCode == <<"undefined">>

\* A stdin command's address that is a number.
NumberAddress == <<NotAString>>
\* Whether (cmd.address || '').trim() is a function call that returns.
hasTrim(address) == address # NumberAddress

\* String.prototype.trim
RECURSIVE trimStart(_)
trimStart(str) ==
  IF str # <<>> /\ Head(str) = " " THEN trimStart(Tail(str)) ELSE str
RECURSIVE trimEnd(_)
trimEnd(str) ==
  IF str # <<>> /\ str[Len(str)] = " " THEN trimEnd(SubSeq(str, 1, Len(str) - 1))
  ELSE str
trim(str) == trimEnd(trimStart(str))

\* The characters [A-Z0-9] matches with the i flag, among the model's.
Alnum == {"A", "B", "C", "D", "Z", "a", "b", "c", "d", "z", "2", "3", "4", "5", "9"}
\* INVITE_CODE_RE.test(addr)
INVITE_CODE_RE(addr) ==
  /\ Len(addr) = 9
  /\ addr[5] = "-"
  /\ \A i \in {1, 2, 3, 4, 6, 7, 8, 9} : addr[i] \in Alnum

startsWithSlash(addr) == addr # <<>> /\ Head(addr) = "/"

\* An event line written to stdout by the session's handlers.
Event(type, ok, address, peerId, code) ==
  [type |-> type, ok |-> ok, address |-> address, peerId |-> peerId, code |-> code]

\* What fetchJson(/lookup?code=addr) gives the dial command: the promise
\* resolves with the relay's answer, resolves with some other JSON error
\* body, or rejects.
lookupResponse(c2e, addr, http, t) ==
  LET look == lookupCode(c2e, addr, t)
  IN  IF http = "ok" /\ look.found
      THEN [resolves |-> TRUE, circuitAddr |-> TRUE, peerId |-> look.peerId]
      ELSE [resolves |-> Resolves(http), circuitAddr |-> FALSE, peerId |-> ""]

\* The 'dial' command: the trimmed address, the peer-id added to
\* knownChatPeers if one is, the requests and dials made and the events
\* emitted.  A TypeError of trim() lands in the catch of the line handler,
\* which logs.
dialKnownOnlyIfDialed(resp, dialOk) == IF dialOk THEN {resp.peerId} ELSE {}
dialKnown(resp, dialOk) == {resp.peerId}
dialCommand(c2e, address, http, dialOk, t) ==
  IF ~hasTrim(address)
  THEN [address |-> address, known |-> {}, requests |-> <<>>, dials |-> <<>>,
        events |-> <<>>]
  ELSE
    LET addr == trim(address)
        resp == lookupResponse(c2e, addr, http, t)
    IN  IF INVITE_CODE_RE(addr)
        THEN IF resp.resolves /\ resp.circuitAddr
             THEN [address |-> addr, known |-> dialKnown(resp, dialOk),
                   requests |-> <<[path |-> "/lookup", http |-> http]>>,
                   dials |-> <<[to |-> <<resp.peerId>>, ok |-> dialOk]>>,
                   events |-> <<Event("dial_result", TRUE, addr, resp.peerId, NoCode)>>]
             ELSE [address |-> addr, known |-> {},
                   requests |-> <<[path |-> "/lookup", http |-> http]>>,
                   dials |-> <<>>,
                   events |-> <<Event("dial_result", FALSE, addr, "", NoCode)>>]
        ELSE IF ~startsWithSlash(addr)
        THEN [address |-> addr, known |-> {}, requests |-> <<>>, dials |-> <<>>,
              events |-> <<Event("dial_result", FALSE, addr, "", NoCode)>>]
        ELSE [address |-> addr, known |-> {}, requests |-> <<>>,
              dials |-> <<[to |-> addr, ok |-> dialOk]>>,
              events |-> <<Event("dial_result", dialOk, addr, "", NoCode)>>]

\* The stdin 'dial' command.
Dial(n, address, http, dialOk) ==
  LET run == dialCommand(codeToEntry, address, http, dialOk, now)
      req == [method |-> "GET", path |-> "/lookup", peerId |-> "", code |-> run.address,
              since |-> 0, body |-> <<>>]
  IN  /\ nCmds' = nCmds + 1
      /\ knownChatPeers' = [knownChatPeers EXCEPT ![n] = @ \cup run.known]
      /\ IF run.requests # <<>> /\ Handled(http)
         THEN Serve(req, NoCode)
         ELSE NotServed
      /\ lastRun' = [node |-> n, fn |-> "dial", address |-> address,
                     requests |-> run.requests, dials |-> run.dials,
                     events |-> run.events]
      /\ UNCHANGED <<getPeers, relayPeerId, stats, pollErrors, emitted, pending, timers>>
      /\ UNCHANGED <<now, nSends, nPolls, nTicks, burst, nReqs, inviteCode>>
      /\ UNCHANGED otherVars
      /\ lastCmd' = NoCmd /\ lastPoll' = NoPoll

\* registerInviteCode: the value of inviteCode afterwards, the request made,
\* the events emitted and whether the catch schedules a retry.  fetchJson
\* resolves with whatever JSON the response carries, code field or not.
codeOf(http, code, old) == IF http = "ok" THEN code ELSE UndefinedCode
registerInviteCode(rid, old, http, code) ==
  IF rid = Null
  THEN [inviteCode |-> old, requests |-> <<>>, events |-> <<>>, retry |-> FALSE]
  ELSE IF Resolves(http)
  THEN [inviteCode |-> codeOf(http, code, old),
        requests |-> <<[path |-> "/register", http |-> http]>>,
        events |-> <<Event("invite_code", TRUE, <<>>, "", codeOf(http, code, old))>>,
        retry |-> FALSE]
  ELSE [inviteCode |-> old,
        requests |-> <<[path |-> "/register", http |-> http]>>,
        events |-> <<>>, retry |-> TRUE]

\* The /register request of node n.
RegisterRequest(n) ==
  [method |-> "GET", path |-> "/register", peerId |-> n, code |-> NoCode,
   since |-> 0, body |-> <<>>]

\* The registerInviteCode timer fires.
RegisterInviteCode(n, http, fresh) ==
  LET code == registerPeer(codeToEntry, peerToCode, n, now, fresh).code
      run == registerInviteCode(relayPeerId[n], inviteCode[n], http, code)
  IN  /\ "registerInviteCode" \in timers[n]
      /\ nCmds' = nCmds + 1
      /\ inviteCode' = [inviteCode EXCEPT ![n] = run.inviteCode]
      /\ timers' = [timers EXCEPT ![n] = IF run.retry THEN @
                                         ELSE @ \ {"registerInviteCode"}]
      /\ IF run.requests # <<>> /\ Handled(http)
         THEN Serve(RegisterRequest(n), fresh)
         ELSE NotServed
      /\ lastRun' = [node |-> n, fn |-> "registerInviteCode", address |-> <<>>,
                     requests |-> run.requests, dials |-> <<>>, events |-> run.events]
      /\ UNCHANGED <<getPeers, knownChatPeers, relayPeerId, stats, pollErrors, emitted,
                     pending>>
      /\ UNCHANGED <<now, nSends, nPolls, nTicks, burst, nReqs>>
      /\ UNCHANGED otherVars
      /\ lastCmd' = NoCmd /\ lastPoll' = NoPoll

\* getRelayInfo: info.relayPeerId of the /info response, null if fetchJson
\* rejects; a JSON error body has no relayPeerId field.
getRelayInfo(http) == IF http = "ok" THEN RelayId ELSE Null

\* The reconnectRelay timer fires: /info, the dial of the relay,
\* registerInviteCode.  Every failure schedules reconnectRelay again.
ReconnectRelay(n, info, dialOk, http, fresh) ==
  LET rid == getRelayInfo(info)
      code == registerPeer(codeToEntry, peerToCode, n, now, fresh).code
      run == registerInviteCode(rid, inviteCode[n], http, code)
      registers == rid # Null /\ dialOk
  IN  /\ "reconnectRelay" \in timers[n]
      /\ nCmds' = nCmds + 1
      /\ relayPeerId' = [relayPeerId EXCEPT ![n] = rid]
      /\ inviteCode' = IF registers THEN [inviteCode EXCEPT ![n] = run.inviteCode]
                       ELSE inviteCode
      /\ timers' = [timers EXCEPT ![n] =
                      IF ~registers THEN @
                      ELSE (@ \ {"reconnectRelay"})
                             \cup (IF run.retry THEN {"registerInviteCode"} ELSE {})]
      /\ IF registers /\ Handled(http)
         THEN Serve(RegisterRequest(n), fresh)
         ELSE NotServed
      /\ lastRun' = [node |-> n, fn |-> "reconnectRelay", address |-> <<>>,
                     requests |-> <<[path |-> "/info", http |-> info]>>
                                    \o (IF registers THEN run.requests ELSE <<>>),
                     dials |-> IF rid # Null THEN <<[to |-> <<rid>>, ok |-> dialOk]>>
                               ELSE <<>>,
                     events |-> IF registers THEN run.events ELSE <<>>]
      /\ UNCHANGED <<getPeers, knownChatPeers, stats, pollErrors, emitted, pending>>
      /\ UNCHANGED <<now, nSends, nPolls, nTicks, burst, nReqs>>
      /\ UNCHANGED otherVars
      /\ lastCmd' = NoCmd /\ lastPoll' = NoPoll

\* The poll timer fires while relayPeerId is null: pollRelayMessages returns
\* at once.
PollSkipped(n) ==
  /\ relayPeerId[n] = Null
  /\ nPolls < MaxPolls
  /\ nPolls' = nPolls + 1
  /\ lastPoll' = [NoPoll EXCEPT !.node = n]
  /\ lastOp' = NoOp /\ lastCmd' = NoCmd
  /\ UNCHANGED <<messageQueues, now, enqCount, returned, unswept, nSends, nTicks, burst>>
  /\ UNCHANGED peerVars
  /\ NoRegistryOrSessionStep

\* -------------------------------------------------------- relay reconnection
\* reconnectRelay as the event loop runs it: the timer callback up to its
\* first await, and the continuation after each await.  The delays of the
\* timers (5 s, 15 s, 10 s) are not modelled, only that a pending timer
\* fires at some time.

\* The outcome of a request or a dial made now.
httpNow == IF reachable THEN "ok" ELSE "failed"

Pending(a) == a.timer + a.info + a.dial + a.register

\* A reconnection step leaves the rest of the node, the relay's queues and
\* the other components alone.
NoOtherThanReconnectStep ==
  /\ UNCHANGED <<stats, pollErrors, emitted, pending, nCmds>>
  /\ UNCHANGED <<now, nSends, nPolls, nTicks, burst, nReqs>>
  /\ UNCHANGED <<startupVars, wireVars, inFlightVars, appVars>>
  /\ lastCmd' = NoCmd /\ lastPoll' = NoPoll /\ lastRun' = NoRun

\* The relay stops answering.
RelayDown ==
  /\ reachable /\ nDrops < MaxDrops
  /\ reachable' = FALSE
  /\ nDrops' = nDrops + 1
  /\ UNCHANGED <<getPeers, knownChatPeers, relayPeerId, inviteCode, timers, attempts>>
  /\ NotServed
  /\ NoOtherThanReconnectStep

\* The relay answers again.
RelayUp ==
  /\ ~reachable
  /\ reachable' = TRUE
  /\ UNCHANGED <<getPeers, knownChatPeers, relayPeerId, inviteCode, timers, attempts,
                 nDrops>>
  /\ NotServed
  /\ NoOtherThanReconnectStep

\* The peer:disconnect listener of node n for the relay's peer-id: if it is
\* the node's relayPeerId, reconnectRelay is scheduled.
RelayDisconnect(n) ==
  /\ RelayId \in getPeers[n] /\ nDrops < MaxDrops
  /\ nDrops' = nDrops + 1
  /\ getPeers' = [getPeers EXCEPT ![n] = @ \ {RelayId}]
  /\ knownChatPeers' = [knownChatPeers EXCEPT ![n] = knownAfterDisconnect(@, RelayId)]
  /\ attempts' = IF relayPeerId[n] # Null /\ RelayId = relayPeerId[n]
                 THEN [attempts EXCEPT !.timer = @ + 1, !.retried = 0, !.dialed = 0,
                                       !.registered = 0]
                 ELSE attempts
  /\ UNCHANGED <<relayPeerId, inviteCode, timers, reachable>>
  /\ NotServed
  /\ NoOtherThanReconnectStep

\* The peer:connect listener of node n for the relay's peer-id, the
\* connection coming about without a dial of reconnectRelay.
RelayConnect(n) ==
  /\ reachable /\ RelayId \notin getPeers[n]
  /\ getPeers' = [getPeers EXCEPT ![n] = @ \cup {RelayId}]
  /\ knownChatPeers' = IF RelayId # relayPeerId[n]
                       THEN [knownChatPeers EXCEPT ![n] = @ \cup {RelayId}]
                       ELSE knownChatPeers
  /\ UNCHANGED <<relayPeerId, inviteCode, timers, reachable, attempts, nDrops>>
  /\ NotServed
  /\ NoOtherThanReconnectStep

\* A reconnectRelay timer of node n fires: the call runs up to the await of
\* getRelayInfo().
ReconnectFire(n) ==
  /\ attempts.timer > 0
  /\ attempts' = [attempts EXCEPT !.timer = @ - 1, !.info = @ + 1]
  /\ UNCHANGED <<getPeers, knownChatPeers, relayPeerId, inviteCode, timers, reachable,
                 nDrops>>
  /\ NotServed
  /\ NoOtherThanReconnectStep

\* A reconnectRelay that gives up when the relay's info cannot be had.
infoSettledNoRetry(a, rid) ==
  IF rid = Null THEN [a EXCEPT !.info = @ - 1]
  ELSE [a EXCEPT !.info = @ - 1, !.dial = @ + 1]

\* reconnectRelay after getRelayInfo(): null schedules reconnectRelay again,
\* a peer-id starts the dial.
infoSettled(a, rid) ==
  IF rid = Null THEN [a EXCEPT !.info = @ - 1, !.timer = @ + 1, !.retried = 1]
  ELSE [a EXCEPT !.info = @ - 1, !.dial = @ + 1]

\* getRelayInfo() of a reconnectRelay call settles: relayPeerId is assigned.
ReconnectInfo(n) ==
  /\ attempts.info > 0
  /\ LET rid == getRelayInfo(httpNow) IN
      /\ relayPeerId' = [relayPeerId EXCEPT ![n] = rid]
      /\ attempts' = infoSettled(attempts, rid)
  /\ UNCHANGED <<getPeers, knownChatPeers, inviteCode, timers, reachable, nDrops>>
  /\ NotServed
  /\ NoOtherThanReconnectStep

\* node.dial of a reconnectRelay call settles.  Rejected, the catch
\* schedules reconnectRelay again.  Resolved, registerInviteCode is called: it
\* returns at once while relayPeerId is null, and else awaits /register.
ReconnectDial(n) ==
  /\ attempts.dial > 0
  /\ IF ~reachable
     THEN /\ attempts' = [attempts EXCEPT !.dial = @ - 1, !.timer = @ + 1,
                                          !.retried = 1]
          /\ UNCHANGED <<getPeers, knownChatPeers>>
     ELSE /\ getPeers' = [getPeers EXCEPT ![n] = @ \cup {RelayId}]
          /\ knownChatPeers' =
               IF RelayId \notin getPeers[n] /\ RelayId # relayPeerId[n]
               THEN [knownChatPeers EXCEPT ![n] = @ \cup {RelayId}]
               ELSE knownChatPeers
          /\ attempts' = IF relayPeerId[n] = Null
                         THEN [attempts EXCEPT !.dial = @ - 1, !.dialed = 1]
                         ELSE [attempts EXCEPT !.dial = @ - 1, !.register = @ + 1,
                                               !.dialed = 1]
  /\ UNCHANGED <<relayPeerId, inviteCode, timers, reachable, nDrops>>
  /\ NotServed
  /\ NoOtherThanReconnectStep

\* The /register request of registerInviteCode, called by reconnectRelay,
\* settles: the code is stored and emitted, or the catch schedules
\* registerInviteCode.  reconnectRelay returns.
ReconnectRegister(n, fresh) ==
  LET code == registerPeer(codeToEntry, peerToCode, n, now, fresh).code
      run == registerInviteCode(RelayId, inviteCode[n], httpNow, code)
  IN  /\ attempts.register > 0
      /\ attempts' = [attempts EXCEPT
                        !.register = @ - 1,
                        !.registered = IF run.retry THEN @ ELSE attempts.dialed]
      /\ inviteCode' = [inviteCode EXCEPT ![n] = run.inviteCode]
      /\ timers' = [timers EXCEPT ![n] = IF run.retry THEN @ \cup {"registerInviteCode"}
                                         ELSE @]
      /\ IF Handled(httpNow) THEN Serve(RegisterRequest(n), fresh) ELSE NotServed
      /\ UNCHANGED <<getPeers, knownChatPeers, relayPeerId, reachable, nDrops>>
      /\ NoOtherThanReconnectStep

\* A registerInviteCode timer of node n fires and its request, if it makes
\* one, settles.
RegisterRetry(n, fresh) ==
  LET code == registerPeer(codeToEntry, peerToCode, n, now, fresh).code
      run == registerInviteCode(relayPeerId[n], inviteCode[n], httpNow, code)
  IN  /\ "registerInviteCode" \in timers[n]
      /\ attempts' = [attempts EXCEPT
                        !.registered = IF run.requests # <<>> /\ ~run.retry
                                       THEN attempts.dialed ELSE @]
      /\ inviteCode' = [inviteCode EXCEPT ![n] = run.inviteCode]
      /\ timers' = [timers EXCEPT ![n] = IF run.retry THEN @
                                         ELSE @ \ {"registerInviteCode"}]
      /\ IF run.requests # <<>> /\ Handled(httpNow)
         THEN Serve(RegisterRequest(n), fresh)
         ELSE NotServed
      /\ UNCHANGED <<getPeers, knownChatPeers, relayPeerId, reachable, nDrops>>
      /\ NoOtherThanReconnectStep

\* -------------------------------------------------------------- stdin lines

\* A stdin line by what JSON.parse makes of it: a throw, null, a number, or
\* an object with its cmd and the fields of a send command.
Line(json, cmd, channelId, data, targetPeerId) ==
  [json |-> json, cmd |-> cmd, channelId |-> channelId, data |-> data,
   targetPeerId |-> targetPeerId]

\* rl.on('line'): what the handler does with the line.  Reading cmd of null
\* throws, and so does targetPeerId.slice of a number; both end in the
\* catch, as a throw of JSON.parse does.
stdinLine(line) ==
  IF line.json \in {"invalid", "null"} THEN "Bad stdin"
  ELSE IF line.json # "object" THEN "Unknown command"
  ELSE IF line.cmd = "send"
  THEN IF line.targetPeerId # Null /\ ~hasSlice(line.targetPeerId)
       THEN "Bad stdin" ELSE "send"
  ELSE IF line.cmd \in {"dial", "status"} THEN line.cmd
  ELSE "Unknown command"

\* A line that ends in one of the handler's two log calls.
LoggedLine(n, line) ==
  /\ stdinLine(line) \in {"Bad stdin", "Unknown command"}
  /\ nCmds' = nCmds + 1
  /\ lastRun' = [NoRun EXCEPT !.node = n, !.fn = "line",
                              !.events = <<Event("log", FALSE, <<>>, "", NoCode)>>]
  /\ lastOp' = NoOp /\ lastCmd' = NoCmd /\ lastPoll' = NoPoll /\ lastReq' = NoReq
  /\ UNCHANGED <<getPeers, knownChatPeers, relayPeerId, stats, pollErrors,
                 emitted, pending, timers>>
  /\ UNCHANGED <<relayVars, registryVars, inviteCode, otherVars>>

\* A line that reaches the 'send' case.
SendLine(n, line, oc) ==
  /\ stdinLine(line) = "send"
  /\ SendCmd(n, [channelId |-> line.channelId, data |-> line.data,
                 targetPeerId |-> line.targetPeerId], oc)

\* ------------------------------------------------- requests under way

\* The data of the send commands, in the order the commands are given.
Messages == <<"m1", "m2", "m3", "m4">>

\* A step of the requests under way touches nothing but the relay's queue,
\* the counters and stdout of the nodes.
NoOtherThanInFlightStep ==
  /\ UNCHANGED <<getPeers, knownChatPeers, relayPeerId, pending, timers>>
  /\ UNCHANGED <<now, nSends, nTicks, burst>>
  /\ UNCHANGED <<registryVars, inviteCode, startupVars, wireVars, reconnectVars,
                 appVars>>
  /\ lastCmd' = NoCmd /\ lastPoll' = NoPoll
  /\ lastReq' = NoReq /\ lastRun' = NoRun

\* The stdin handler of node n runs a 'send' command for a target that is
\* not connected: sendViaRelay hands the /send request to the network and
\* the handler waits; the handler of the next line may run meanwhile.
SendStart(n, to) ==
  /\ relayPeerId[n] # Null
  /\ sending' = sending \cup
       {[order |-> nCmds + 1,
         body |-> [to |-> to, from |-> n, channelId |-> "dm",
                   data |-> Envelope("dm", Messages[nCmds + 1])]]}
  /\ nCmds' = nCmds + 1
  /\ lastOp' = NoOp
  /\ UNCHANGED <<messageQueues, enqCount, returned, unswept, nPolls>>
  /\ UNCHANGED <<stats, pollErrors, emitted, replies>>
  /\ NoOtherThanInFlightStep

\* One of the /send requests reaches the relay, is handled and answered;
\* the waiting handler counts the message as sent.
PostArrives(q) ==
  /\ q \in sending
  /\ HandleSends(<<q.body>>)
  /\ sending' = sending \ {q}
  /\ stats' = [stats EXCEPT ![q.body.from].sent = @ + 1]
  /\ UNCHANGED <<returned, nPolls, nCmds, pollErrors, emitted, replies>>
  /\ NoOtherThanInFlightStep

\* The poll timer of node n fires: the /poll request is handled by the
\* relay and the response is on its way; the timer fires again whether or
\* not the response has come.
PollStart(n) ==
  /\ relayPeerId[n] # Null
  /\ HandlePoll(n, pollSince(now))
  /\ replies' = replies \cup
       {[to |-> n, poll |-> nPolls + 1,
         messages |-> dequeueResult(messageQueues, n, pollSince(now), now)]}
  /\ nPolls' = nPolls + 1
  /\ UNCHANGED <<enqCount, nCmds, stats, pollErrors, emitted, sending>>
  /\ NoOtherThanInFlightStep

\* A /poll response reaches node n: pollRelayMessages goes on after its
\* await and emits the messages.
PollReply(n, r) ==
  /\ r \in replies /\ r.to = n
  /\ replies' = replies \ {r}
  /\ pollErrors' = [pollErrors EXCEPT ![n] = 0]
  /\ stats' = [stats EXCEPT ![n].recv = @ + Len(r.messages)]
  /\ emitted' = [emitted EXCEPT ![n] = @ \o pollEvents(r.messages)]
  /\ lastOp' = NoOp
  /\ UNCHANGED <<messageQueues, enqCount, returned, unswept, nPolls, nCmds, sending>>
  /\ NoOtherThanInFlightStep

\* ------------------------------------------------------------ peer startup

\* The ports of the host, and the ones a running peer process has bound.
Ports == {4001, 4002, 4003}

boundPorts == {instances[i].bound : i \in Instances} \ {0}

isPortAvailable(port) == port \notin boundPorts

\* getAvailablePort: any port the operating system has free.
getAvailablePort == Ports \ boundPorts

\* A key pair is the number of the startup that generated it; its peer id
\* is derived from it.
generateKeyPair(run) == run

peerIdFromPrivateKey(key) == <<"12D3KooW", key>>

\* Buffer.from(privateKeyToProtobuf(key)).toString('base64') and back:
\* privateKeyFromProtobuf(Buffer.from(text, 'base64')) throws on bytes
\* that are no protobuf key.
privateKeyToProtobuf(key) == <<"b64", key>>

\* A decoder that takes the persisted text for hex digits.
decodesHexToKey(text) == Len(text) = 2 /\ text[1] = "hex"

decodesToKey(text) == Len(text) = 2 /\ text[1] = "b64"

privateKeyFromProtobuf(text) == text[2]

IdentityJson(key) == [kind |-> "object", privateKey |-> privateKeyToProtobuf(key)]

ConfigJson(port) == [kind |-> "object", port |-> port]

\* loadOrCreatePort with the port getAvailablePort would return: the
\* persisted port when it is a positive number and free, a new port and the
\* conflict flag when it is in use, a new persisted port when no usable
\* port file is there.
loadOrCreatePort(file, free) ==
  IF file.kind = "object" /\ file.port > 0
  THEN IF isPortAvailable(file.port)
       THEN [port |-> file.port, conflict |-> FALSE, file |-> file]
       ELSE [port |-> free, conflict |-> TRUE, file |-> file]
  ELSE [port |-> free, conflict |-> FALSE, file |-> ConfigJson(free)]

\* loadOrCreateIdentity without a port conflict, with the key
\* generateKeyPair would return and whether writeFileSync succeeds: the
\* persisted key when the file decodes, else a new key, persisted when the
\* write succeeds.
loadOrGenerate(file, fresh, writeOk) ==
  IF /\ file.kind = "object"
     /\ file.privateKey # <<>>
     /\ decodesToKey(file.privateKey)
  THEN [privateKey |-> privateKeyFromProtobuf(file.privateKey),
        isNew |-> FALSE, isEphemeral |-> FALSE, file |-> file]
  ELSE [privateKey |-> fresh, isNew |-> TRUE, isEphemeral |-> FALSE,
        file |-> IF writeOk THEN IdentityJson(fresh) ELSE file]

\* A loader that does not look at the port conflict.
loadOrCreateIdentityPersisted(portConflict, file, fresh, writeOk) ==
  loadOrGenerate(file, fresh, writeOk)

loadOrCreateIdentity(portConflict, file, fresh, writeOk) ==
  IF portConflict
  THEN [privateKey |-> fresh, isNew |-> FALSE, isEphemeral |-> TRUE,
        file |-> file]
  ELSE loadOrGenerate(file, fresh, writeOk)

\* A startup step leaves the relay and the running nodes alone.
NoRelayOrPeerStep ==
  /\ UNCHANGED <<relayVars, peerVars, registryVars, inviteCode>>
  /\ UNCHANGED <<wireVars, inFlightVars, reconnectVars, appVars>>
  /\ lastOp' = NoOp /\ lastCmd' = NoCmd /\ lastPoll' = NoPoll
  /\ lastReq' = NoReq /\ lastRun' = NoRun

\* A peer process is started: loadOrCreatePort.
StartPort(i, free) ==
  /\ instances[i].pc = "off"
  /\ free \in getAvailablePort
  /\ LET r == loadOrCreatePort(configFile, free) IN
      /\ configFile' = r.file
      /\ instances' = [instances EXCEPT ![i] =
            [Off EXCEPT !.pc = "identity", !.run = nStarts + 1,
                        !.port = r.port, !.conflict = r.conflict,
                        !.checked = IF configFile.kind = "object" /\ configFile.port > 0
                                    THEN configFile.port ELSE 0,
                        !.foundInUse = /\ configFile.kind = "object"
                                       /\ configFile.port > 0
                                       /\ ~isPortAvailable(configFile.port)]]
  /\ nStarts' = nStarts + 1
  /\ lastStart' = [NoStart EXCEPT !.inst = i, !.step = "port"]
  /\ UNCHANGED identityFile
  /\ NoRelayOrPeerStep

\* The process loads or creates its identity with the conflict flag.
StartIdentity(i, writeOk) ==
  /\ instances[i].pc = "identity"
  /\ LET r == loadOrCreateIdentity(instances[i].conflict, identityFile,
                                   generateKeyPair(instances[i].run), writeOk) IN
      /\ identityFile' = r.file
      /\ instances' = [instances EXCEPT ![i].pc = "node",
                                        ![i].privateKey = r.privateKey,
                                        ![i].isNew = r.isNew,
                                        ![i].isEphemeral = r.isEphemeral,
                                        ![i].wrote = (r.file # identityFile)]
  /\ lastStart' = [NoStart EXCEPT !.inst = i, !.step = "identity",
                                  !.before = identityFile.privateKey]
  /\ UNCHANGED <<configFile, nStarts>>
  /\ NoRelayOrPeerStep

\* A startup that takes every failure of createNode for address-in-use.
startNodeRetryingAny(port, first, newPort, retryFails, file) ==
  IF first = "none"
  THEN [calls |-> 1, bound |-> port, file |-> file, events |-> <<"ready">>,
        exited |-> FALSE, exitCode |-> 0]
  ELSE IF retryFails
  THEN [calls |-> 2, bound |-> 0, file |-> ConfigJson(newPort),
        events |-> <<"error">>, exited |-> TRUE, exitCode |-> 1]
  ELSE [calls |-> 2, bound |-> newPort, file |-> ConfigJson(newPort),
        events |-> <<"ready">>, exited |-> FALSE, exitCode |-> 0]

\* The main block from createNode on, with the outcome of the first
\* createNode, the port getAvailablePort would return and whether the second
\* createNode fails: the createNode calls made, the port bound, the port
\* file, the ready or error event and the exit.
startNode(port, first, newPort, retryFails, file) ==
  IF first = "none"
  THEN [calls |-> 1, bound |-> port, file |-> file, events |-> <<"ready">>,
        exited |-> FALSE, exitCode |-> 0]
  ELSE IF first # "addrInUse"
  THEN [calls |-> 1, bound |-> 0, file |-> file, events |-> <<"error">>,
        exited |-> TRUE, exitCode |-> 1]
  ELSE IF retryFails
  THEN [calls |-> 2, bound |-> 0, file |-> ConfigJson(newPort),
        events |-> <<"error">>, exited |-> TRUE, exitCode |-> 1]
  ELSE [calls |-> 2, bound |-> newPort, file |-> ConfigJson(newPort),
        events |-> <<"ready">>, exited |-> FALSE, exitCode |-> 0]

\* createNode binds the port: it fails with address-in-use when the port is
\* bound, and may fail for another reason.  On address-in-use the port file
\* is replaced by a new port and createNode runs once more with the same
\* key.  The process then emits ready, or emits error and exits.
StartNode(i, free, failure, retryFails) ==
  /\ instances[i].pc = "node"
  /\ free \in getAvailablePort
  /\ LET first == IF isPortAvailable(instances[i].port) THEN failure
                  ELSE "addrInUse"
         r == startNode(instances[i].port, first, free, retryFails, configFile)
     IN
      /\ instances' = [instances EXCEPT ![i] =
                         IF r.exited THEN Off
                         ELSE [@ EXCEPT !.pc = "ready", !.bound = r.bound]]
      /\ configFile' = r.file
      /\ lastStart' = [NoStart EXCEPT
                         !.inst = i, !.step = "node",
                         !.bindFailed = (first = "addrInUse"),
                         !.first = first,
                         !.retryFailed = (first = "addrInUse" /\ retryFails),
                         !.port = instances[i].port, !.newPort = free,
                         !.config = configFile, !.calls = r.calls,
                         !.events = r.events, !.exited = r.exited,
                         !.exitCode = r.exitCode]
  /\ UNCHANGED <<identityFile, nStarts>>
  /\ NoRelayOrPeerStep

\* shutdown: the process exits and its port is free again.
Shutdown(i) ==
  /\ instances[i].pc = "ready"
  /\ instances' = [instances EXCEPT ![i] = Off]
  /\ lastStart' = [NoStart EXCEPT !.inst = i, !.step = "shutdown"]
  /\ UNCHANGED <<identityFile, configFile, nStarts>>
  /\ NoRelayOrPeerStep

\* ------------------------------------------------------------ wire formats
\* Texts as they are on the wire: sequences of characters, the name of a JSON
\* member standing for its run of letters.

\* JavaScript values read out of parsed JSON.
Str(text) == [t |-> "string", s |-> text]

UndefinedValue == [t |-> "undefined", s |-> <<>>]

falsy(v) == v.t \in {"undefined", "null"} \/ (v.t = "string" /\ v.s = <<>>)

OrValue(a, b) == IF falsy(a) THEN b ELSE a

DefaultChannel == Str(<<DEFAULT_CHANNEL>>)

\* JSON.stringify of a string: quotes, backslashes and line feeds escaped.
RECURSIVE escapeChars(_)
escapeChars(text) ==
  IF text = <<>> THEN <<>>
  ELSE (IF Head(text) = "\n" THEN <<"\\", "n">>
        ELSE IF Head(text) \in {"\"", "\\"} THEN <<"\\", Head(text)>>
        ELSE <<Head(text)>>) \o escapeChars(Tail(text))

\* A stringify that escapes nothing.
jsonEscapeNone(text) == text

jsonEscape(text) == escapeChars(text)

quote(text) == <<"\"">> \o jsonEscape(text) \o <<"\"">>

member(name, text) == <<"\"", name, "\"", ":">> \o quote(text)

\* JSON.stringify({ channelId, data }) with string fields.
stringify(channelId, data) ==
  <<"{">> \o member("channelId", channelId) \o <<",">> \o member("data", data)
          \o <<"}">>

\* JSON.parse: a string literal from its first character after the quote.
NoString == [ok |-> FALSE, s |-> <<>>, next |-> 0]

RECURSIVE readString(_, _, _)
readString(text, i, acc) ==
  IF i > Len(text) THEN NoString
  ELSE IF text[i] = "\"" THEN [ok |-> TRUE, s |-> acc, next |-> i + 1]
  ELSE IF text[i] = "\n" THEN NoString
  ELSE IF text[i] = "\\"
  THEN IF i + 1 > Len(text) THEN NoString
       ELSE IF text[i + 1] = "n" THEN readString(text, i + 2, Append(acc, "\n"))
       ELSE IF text[i + 1] \in {"\"", "\\"}
            THEN readString(text, i + 2, Append(acc, text[i + 1]))
       ELSE NoString
  ELSE readString(text, i + 1, Append(acc, text[i]))

\* JSON.parse: the value of a member, a string literal or the number 7.
NoValue == [ok |-> FALSE, v |-> UndefinedValue, next |-> 0]

readValue(text, i) ==
  IF i > Len(text) THEN NoValue
  ELSE IF text[i] = "7"
  THEN [ok |-> TRUE, v |-> [t |-> "number", s |-> <<"7">>], next |-> i + 1]
  ELSE IF text[i] = "\""
  THEN LET r == readString(text, i + 1, <<>>)
       IN  IF r.ok THEN [ok |-> TRUE, v |-> Str(r.s), next |-> r.next]
           ELSE NoValue
  ELSE NoValue

\* What JSON.parse returns: its type, its text when a string or number, and
\* what reading .channelId and .data of it gives.
Parsed(t, text) ==
  [t |-> t, s |-> text, channelId |-> UndefinedValue, data |-> UndefinedValue]

Invalid == Parsed("invalid", <<>>)

RECURSIVE readMembers(_, _, _)
readMembers(text, i, obj) ==
  IF i + 3 > Len(text) \/ text[i] # "\"" \/ text[i + 2] # "\"" \/ text[i + 3] # ":"
  THEN Invalid
  ELSE LET r == readValue(text, i + 4)
           o == IF text[i + 1] = "channelId" THEN [obj EXCEPT !.channelId = r.v]
                ELSE IF text[i + 1] = "data" THEN [obj EXCEPT !.data = r.v]
                ELSE obj
       IN  IF ~r.ok \/ r.next > Len(text) THEN Invalid
           ELSE IF text[r.next] = "}"
                THEN IF r.next = Len(text) THEN o ELSE Invalid
           ELSE IF text[r.next] = "," THEN readMembers(text, r.next + 1, o)
           ELSE Invalid

\* JSON.parse(text); "invalid" when it throws.
JSONparse(text) ==
  IF text = <<>> THEN Invalid
  ELSE IF text = <<"null">> THEN Parsed("null", <<>>)
  ELSE IF text = <<"7">> THEN Parsed("number", text)
  ELSE IF text[1] = "\""
  THEN LET r == readString(text, 2, <<>>)
       IN  IF r.ok /\ r.next = Len(text) + 1 THEN Parsed("string", r.s)
           ELSE Invalid
  ELSE IF text = <<"{", "}">> THEN Parsed("object", <<>>)
  ELSE IF text[1] = "{" THEN readMembers(text, 2, Parsed("object", <<>>))
  ELSE Invalid

\* A string member of a JSON body, written by JSON.stringify on one side of
\* an HTTP exchange and read by JSON.parse on the other.
overHttp(text) == readString(quote(text), 2, <<>>).s

\* String.prototype.split('\n')
RECURSIVE splitFrom(_, _)
splitFrom(text, line) ==
  IF text = <<>> THEN <<line>>
  ELSE IF Head(text) = "\n" THEN <<line>> \o splitFrom(Tail(text), <<>>)
  ELSE splitFrom(Tail(text), Append(line, Head(text)))

split(text) == splitFrom(text, <<>>)

\* Characters and bytes. A character of the ASCII range is one byte and
\* stands for it; EAcute is a character of two bytes in UTF-8.
EAcute == "e-acute"

LeadByte == "C3"

ContinuationByte == "A9"

\* U+FFFD, what the decoder puts for bytes that are no whole character.
Replacement == "U+FFFD"

\* fromString of uint8arrays: the UTF-8 bytes of a text.
RECURSIVE fromString(_)
fromString(text) ==
  IF text = <<>> THEN <<>>
  ELSE (IF Head(text) = EAcute THEN <<LeadByte, ContinuationByte>>
        ELSE <<Head(text)>>) \o fromString(Tail(text))

\* toString of uint8arrays: the bytes of one chunk decoded as UTF-8, a byte
\* that is no whole character on its own decoded to U+FFFD.
RECURSIVE toString(_)
toString(bytes) ==
  IF bytes = <<>> THEN <<>>
  ELSE IF Head(bytes) = LeadByte /\ Len(bytes) > 1 /\ bytes[2] = ContinuationByte
  THEN <<EAcute>> \o toString(Tail(Tail(bytes)))
  ELSE IF Head(bytes) \in {LeadByte, ContinuationByte}
  THEN <<Replacement>> \o toString(Tail(bytes))
  ELSE <<Head(bytes)>> \o toString(Tail(bytes))

\* --------------------------------------------------- chat and poll handlers

WireEvent(channelId, data, from, via, seq) ==
  [type |-> "message", channelId |-> channelId, data |-> data, from |-> from,
   via |-> via, seq |-> seq]

NoLines == [recv |-> 0, recvFail |-> 0, events |-> <<>>]

\* registerChatHandler: one complete line.
chatLine(line, from, seq) ==
  IF trim(line) = <<>> THEN NoLines
  ELSE LET msg == JSONparse(line)
       IN  IF msg.t = "invalid" THEN [NoLines EXCEPT !.recvFail = 1]
           ELSE IF msg.t = "null" THEN [NoLines EXCEPT !.recv = 1, !.recvFail = 1]
           ELSE [NoLines EXCEPT
                   !.recv = 1,
                   !.events = <<WireEvent(OrValue(msg.channelId, DefaultChannel),
                                          msg.data, from, "stream", seq)>>]

\* The lines of a chunk handled last line first.
RECURSIVE chatLinesNewestFirst(_, _, _)
chatLinesNewestFirst(lines, from, seq) ==
  IF lines = <<>> THEN NoLines
  ELSE LET h == chatLine(Head(lines), from, seq)
           r == chatLinesNewestFirst(Tail(lines), from, seq)
       IN  [recv |-> h.recv + r.recv, recvFail |-> h.recvFail + r.recvFail,
            events |-> r.events \o h.events]

RECURSIVE chatLines(_, _, _)
chatLines(lines, from, seq) ==
  IF lines = <<>> THEN NoLines
  ELSE LET h == chatLine(Head(lines), from, seq)
           r == chatLines(Tail(lines), from, seq)
       IN  [recv |-> h.recv + r.recv, recvFail |-> h.recvFail + r.recvFail,
            events |-> h.events \o r.events]

\* registerChatHandler: what is left in the buffer when the stream closes.
chatRest(rest, from, seq) ==
  IF trim(rest) = <<>> THEN NoLines
  ELSE LET msg == JSONparse(rest)
       IN  IF msg.t = "invalid" THEN NoLines
           ELSE IF msg.t = "null" THEN [NoLines EXCEPT !.recv = 1]
           ELSE [NoLines EXCEPT
                   !.recv = 1,
                   !.events = <<WireEvent(OrValue(msg.channelId, DefaultChannel),
                                          msg.data, from, "stream", seq)>>]

\* pollRelayMessages: the message event for one message of the response.
pollTextEvent(msg) ==
  LET parsed == JSONparse(msg.data)
  IN  IF parsed.t \in {"invalid", "null"}
      THEN WireEvent(OrValue(Str(msg.channelId), DefaultChannel), Str(msg.data),
                     msg.from, "poll", msg.seq)
      ELSE WireEvent(OrValue(parsed.channelId,
                             OrValue(Str(msg.channelId), DefaultChannel)),
                     parsed.data, msg.from, "poll", msg.seq)

\* A wire step leaves the rest of the nodes, the relay and the data
\* directory alone.
NoOtherThanWireStep ==
  /\ UNCHANGED <<getPeers, knownChatPeers, relayPeerId, pollErrors, pending,
                 nCmds, timers>>
  /\ UNCHANGED <<relayVars, registryVars, inviteCode, startupVars, inFlightVars,
                 reconnectVars, appVars>>
  /\ lastOp' = NoOp /\ lastCmd' = NoCmd /\ lastPoll' = NoPoll
  /\ lastReq' = NoReq /\ lastRun' = NoRun

\* The line cut into the chunks the stream delivers, the first holding k
\* characters.
Chunks(line, k) ==
  LET NonEmpty(c) == c # <<>>
  IN  SelectSeq(<<SubSeq(line, 1, k), SubSeq(line, k + 1, Len(line))>>, NonEmpty)

SplitPoints(line) == {Len(line) \div 2, Len(line) - 4, Len(line) - 1, Len(line)}

\* A peer writes the envelope e as one JSON line to a chat stream.
WriteLine(from, e, k) ==
  /\ ~stream.open /\ inbox = <<>> /\ Len(wires) < MaxWires
  /\ LET line == fromString(stringify(e.channelId, e.data) \o <<"\n">>) IN
      /\ k \in SplitPoints(line)
      /\ stream' = [open |-> TRUE, chunks |-> Chunks(line, k), from |-> from,
                    seq |-> Len(wires) + 1]
  /\ wires' = Append(wires, [kind |-> "line", channelId |-> e.channelId,
                             data |-> e.data, from |-> from])
  /\ UNCHANGED <<buffer, inbox, emitted, stats>>
  /\ NoOtherThanWireStep

\* The bytes cut into the chunks the stream delivers, after the first i and
\* after the first j of them.
ChunksAt(bytes, i, j) ==
  LET NonEmpty(c) == c # <<>>
  IN  SelectSeq(<<SubSeq(bytes, 1, i), SubSeq(bytes, i + 1, j),
                  SubSeq(bytes, j + 1, Len(bytes))>>, NonEmpty)

\* A remote peer opens a chat stream and writes the text to it, whatever it
\* holds; the stream delivers the bytes in up to three chunks.
WriteBytes(from, text, i, j) ==
  /\ ~stream.open /\ inbox = <<>> /\ Len(wires) < MaxWires
  /\ LET bytes == fromString(text) IN
      /\ i <= j /\ j <= Len(bytes)
      /\ stream' = [open |-> TRUE, chunks |-> ChunksAt(bytes, i, j), from |-> from,
                    seq |-> Len(wires) + 1]
  /\ wires' = Append(wires, [kind |-> "bytes", channelId |-> <<>>,
                             data |-> text, from |-> from])
  /\ UNCHANGED <<buffer, inbox, emitted, stats>>
  /\ NoOtherThanWireStep

\* The stdin 'send' command of node n, the target connected and the stream
\* write succeeding: sendToPeer writes payload + '\n'.
SendDirect(n, cmd, k) ==
  /\ ~stream.open /\ inbox = <<>> /\ Len(wires) < MaxWires
  /\ LET channelId == IF cmd.channelId = <<>> THEN <<DEFAULT_CHANNEL>>
                      ELSE cmd.channelId
         payload == stringify(channelId, cmd.data)
         line == fromString(payload \o <<"\n">>)
     IN
      /\ k \in SplitPoints(line)
      /\ stream' = [open |-> TRUE, chunks |-> Chunks(line, k), from |-> n,
                    seq |-> Len(wires) + 1]
  /\ wires' = Append(wires, [kind |-> "direct", channelId |-> cmd.channelId,
                             data |-> cmd.data, from |-> n])
  /\ stats' = [stats EXCEPT ![n].sent = @ + 1]
  /\ UNCHANGED <<buffer, inbox, emitted>>
  /\ NoOtherThanWireStep

\* The stdin 'send' command of node n, the payload going to the relay: the
\* /send body is parsed by the relay, the queued message is read from the
\* /poll response by the receiving node.
SendRelay(n, cmd) ==
  /\ ~stream.open /\ Len(wires) < MaxWires
  /\ LET channelId == IF cmd.channelId = <<>> THEN <<DEFAULT_CHANNEL>>
                      ELSE cmd.channelId
         payload == stringify(channelId, cmd.data)
     IN  inbox' = Append(inbox, [from |-> n,
                                 channelId |-> overHttp(overHttp(channelId)),
                                 data |-> overHttp(overHttp(payload)),
                                 seq |-> Len(wires) + 1])
  /\ wires' = Append(wires, [kind |-> "relay", channelId |-> cmd.channelId,
                             data |-> cmd.data, from |-> n])
  /\ stats' = [stats EXCEPT ![n].sent = @ + 1]
  /\ UNCHANGED <<stream, buffer, emitted>>
  /\ NoOtherThanWireStep

\* Some client of the relay posts /send with a channelId and a data string
\* of its own making.
QueueText(from, channelId, data) ==
  /\ ~stream.open /\ Len(wires) < MaxWires
  /\ inbox' = Append(inbox, [from |-> from, channelId |-> overHttp(channelId),
                             data |-> overHttp(data), seq |-> Len(wires) + 1])
  /\ wires' = Append(wires, [kind |-> "queued", channelId |-> channelId,
                             data |-> data, from |-> from])
  /\ UNCHANGED <<stream, buffer, emitted, stats>>
  /\ NoOtherThanWireStep

\* The chat handler of node n reads the next chunk of the stream.
ChatChunk(n) ==
  /\ stream.open /\ stream.chunks # <<>>
  /\ LET lines == split(buffer \o toString(Head(stream.chunks)))
         r == chatLines(SubSeq(lines, 1, Len(lines) - 1), stream.from, stream.seq)
     IN
      /\ buffer' = lines[Len(lines)]
      /\ emitted' = [emitted EXCEPT ![n] = @ \o r.events]
      /\ stats' = [stats EXCEPT ![n].recv = @ + r.recv,
                                ![n].recvFail = @ + r.recvFail]
  /\ stream' = [stream EXCEPT !.chunks = Tail(@)]
  /\ UNCHANGED <<inbox, wires>>
  /\ NoOtherThanWireStep

\* The stream has closed: the chat handler of node n looks at what is left
\* in its buffer.
ChatClose(n) ==
  /\ stream.open /\ stream.chunks = <<>>
  /\ LET r == chatRest(buffer, stream.from, stream.seq) IN
      /\ emitted' = [emitted EXCEPT ![n] = @ \o r.events]
      /\ stats' = [stats EXCEPT ![n].recv = @ + r.recv]
  /\ buffer' = <<>>
  /\ stream' = [stream EXCEPT !.open = FALSE]
  /\ UNCHANGED <<inbox, wires>>
  /\ NoOtherThanWireStep

\* pollRelayMessages of node n with a successful /poll: every message of the
\* response is counted and emitted.
PollTexts(n) ==
  /\ inbox # <<>>
  /\ emitted' = [emitted EXCEPT ![n] =
                   @ \o [i \in 1..Len(inbox) |-> pollTextEvent(inbox[i])]]
  /\ stats' = [stats EXCEPT ![n].recv = @ + Len(inbox)]
  /\ inbox' = <<>>
  /\ UNCHANGED <<stream, buffer, wires>>
  /\ NoOtherThanWireStep

\* ---------------------------------------------------------- specifications

\* The relay serving arbitrary HTTP clients.
Init ==
  /\ InitRelay
  /\ InitPeers
  /\ InitOther
  /\ knownChatPeers = [n \in Nodes |-> {}]
  /\ relayPeerId = [n \in Nodes |-> RelayId]

Next ==
  \/ Tick
  \/ \E body \in SendBodies : RelaySend(body)
  \/ \E body \in SendBodies : RelaySendBurst(body)
  \/ RelaySendNext
  \/ \E p \in Recipients, since \in SinceValues : RelayPoll(p, since)
  \/ Sweep

Spec == Init /\ [][Next]_vars

\* The relay's queue under single /send and /poll requests, the clock and
\* the sweep timer.
NextDrain ==
  \/ Tick
  \/ \E body \in SendBodies : RelaySend(body)
  \/ \E p \in Recipients, since \in SinceValues : RelayPoll(p, since)
  \/ Sweep

SpecDrain == Init /\ [][NextDrain]_vars

\* The relay's invite registry: /register and /lookup requests, the cleanup
\* timer, the clock.
LowerCased == <<"a", "b", "c", "d", "-", "2", "3", "4", "5">>
MixedCase == <<"D", "c", "B", "a", "-", "5", "4", "3", "2">>
Unissued == <<"Z", "Z", "Z", "Z", "-", "9", "9", "9", "9">>

Request(method, path, peerId, code, since, body) ==
  [method |-> method, path |-> path, peerId |-> peerId, code |-> code,
   since |-> since, body |-> body]

NoBody == [json |-> "invalid", to |-> "", from |-> "", channelId |-> "", data |-> Undefined]

RegistryRequests ==
  {Request("GET", "/register", p, NoCode, 0, NoBody) : p \in Recipients}
  \cup {Request("GET", "/lookup", "", c, 0, NoBody) :
          c \in GeneratedCodes \cup {LowerCased, MixedCase, Unissued}}

NextRegistry ==
  \/ \E req \in RegistryRequests : \E fresh \in FreshCodes(codeToEntry) :
       RelayRequest(req, fresh)
  \/ CleanupExpired
  \/ Elapse

SpecRegistry == Init /\ [][NextRegistry]_vars

\* The relay's HTTP server: every path, well-formed and malformed requests.
SendBody(to, from, channelId, data) ==
  [json |-> "object", to |-> to, from |-> from, channelId |-> channelId, data |-> data]

HttpRequests ==
  {Request("GET", path, "", NoCode, 0, NoBody) : path \in {"/health", "/info", "/other"}}
  \cup {Request("GET", "/register", p, NoCode, 0, NoBody) : p \in {"A", ""}}
  \cup {Request("GET", "/lookup", "", c, 0, NoBody) : c \in {LowerCased, Unissued, NoCode}}
  \cup {Request("GET", "/poll", p, NoCode, since, NoBody) :
          p \in {"B", ""}, since \in {0, NaN}}
  \cup {Request(method, "/send", "", NoCode, 0, body) :
          method \in {"POST", "GET"},
          body \in {NoBody,
                    SendBody("B", "A", "general", Text("raw")),
                    SendBody("", "A", "general", Text("raw")),
                    SendBody("B", "", "general", Text("raw")),
                    SendBody("B", "A", "", Text("raw")),
                    SendBody("B", "A", "general", Undefined),
                    SendBody(NotAString, "A", "general", Text("raw")),
                    SendBody("B", NotAString, "general", Text("raw")),
                    SendBody("B", "A", NotAString, Text("raw"))}}

NextHttp ==
  \/ \E req \in HttpRequests : \E fresh \in FreshCodes(codeToEntry) :
       RelayRequest(req, fresh)
  \/ CleanupExpired

SpecHttp == Init /\ [][NextHttp]_vars

\* The node that reads send commands, and the node that polls.
Sender == "A"
Receiver == "B"

\* The outbound router of one peer node: overlay events, dials and send
\* commands, the relay handling the /send requests.
InitRouter ==
  /\ InitRelay
  /\ InitPeers
  /\ InitOther
  /\ knownChatPeers = [n \in Nodes |-> {}]
  /\ relayPeerId[Receiver] = RelayId

NextRouter ==
  \/ \E pid \in (PeerIds \cup {RelayId}) \ {Sender} : PeerConnect(Sender, pid)
  \/ \E pid \in PeerIds \cup {RelayId} : PeerDisconnect(Sender, pid)
  \/ \E pid \in PeerIds : DialInvite(Sender, pid)
  \/ /\ nCmds < MaxCmds
     /\ \E cmd \in SendCmds :
          \E oc \in [CommandTargets(getPeers[Sender], knownChatPeers[Sender], cmd,
                                    relayPeerId[Sender], Sender) -> CallOutcomes] :
            SendCmd(Sender, cmd, oc)

SpecRouter == InitRouter /\ [][NextRouter]_vars

\* Store and forward: one node sends to the other through the relay, the
\* other polls.  The sender has dialled the receiver's invite code.
InitDelivery ==
  /\ InitRelay
  /\ InitPeers
  /\ InitOther
  /\ knownChatPeers = [n \in Nodes |-> IF n = Sender THEN {Receiver} ELSE {}]
  /\ relayPeerId[Sender] = RelayId

NextDelivery ==
  \/ Tick
  \/ Sweep
  \/ /\ nCmds < MaxForwarded
     /\ \E cmd \in {c \in SendCmds : c.targetPeerId \in {Null, Receiver}} :
          \E oc \in [CommandTargets(getPeers[Sender], knownChatPeers[Sender], cmd,
                                    relayPeerId[Sender], Sender) -> CallOutcomes] :
            SendCmd(Sender, cmd, oc)
  \/ \E http \in HttpOutcomes : PeerPoll(Receiver, http)

SpecDelivery == InitDelivery /\ [][NextDelivery]_vars

\* A peer session: the relay connection, the dial commands and the
\* reconnection timer of one node, the registration timer of both, the relay
\* answering their requests.
DialAddresses ==
  { <<"A", "B", "C", "D", "-", "2", "3", "4", "5">>,
    <<" ">> \o LowerCased \o <<" ">>,
    MixedCase,
    Unissued,
    <<"A", "B", "C", "D", "2", "3", "4", "5">>,
    <<"/", "C">>,
    <<" ", "/", "C">>,
    <<"C">>,
    <<" ">>,
    NoCode,
    NumberAddress }

InitSession ==
  /\ InitRelay
  /\ InitPeers
  /\ InitOther
  /\ knownChatPeers = [n \in Nodes |-> {}]
  /\ relayPeerId[Receiver] = RelayId

NextSession ==
  \/ PeerConnect(Sender, RelayId)
  \/ PeerDisconnect(Sender, RelayId)
  \/ /\ nCmds < MaxRuns
     /\ \E address \in DialAddresses, http \in HttpOutcomes, dialOk \in BOOLEAN :
          Dial(Sender, address, http, dialOk)
  \/ /\ nCmds < MaxRuns
     /\ \E n \in Nodes, http \in HttpOutcomes : \E fresh \in FreshCodes(codeToEntry) :
          RegisterInviteCode(n, http, fresh)
  \/ /\ nCmds < MaxRuns
     /\ \E info \in HttpOutcomes, dialOk \in BOOLEAN, http \in HttpOutcomes :
          \E fresh \in FreshCodes(codeToEntry) :
            ReconnectRelay(Sender, info, dialOk, http, fresh)

SpecSession == InitSession /\ [][NextSession]_vars

\* The poll timer of a node whose relay connection comes and goes.
NextPolling ==
  \/ PeerConnect(Sender, RelayId)
  \/ PeerDisconnect(Sender, RelayId)
  \/ /\ nCmds < MaxRuns
     /\ \E info \in HttpOutcomes, dialOk \in BOOLEAN, http \in HttpOutcomes :
          \E fresh \in FreshCodes(codeToEntry) :
            ReconnectRelay(Sender, info, dialOk, http, fresh)
  \/ \E http \in HttpOutcomes : PeerPoll(Sender, http)
  \/ PollSkipped(Sender)

SpecPolling == InitSession /\ [][NextPolling]_vars

\* Peer processes starting and stopping on one data directory, which at
\* first holds no files or files that cannot be read.
DataDirectories ==
  { [identity |-> f, config |-> c] :
      f \in { NoIdentityFile,
               [kind |-> "invalid", privateKey |-> <<>>],
               [kind |-> "object", privateKey |-> <<>>],
               [kind |-> "object", privateKey |-> <<"junk">>] },
      c \in { NoConfigFile, [kind |-> "invalid", port |-> 0],
               [kind |-> "object", port |-> 0] } }

InitStartup ==
  /\ InitRelay
  /\ InitPeers
  /\ knownChatPeers = [n \in Nodes |-> {}]
  /\ relayPeerId = [n \in Nodes |-> RelayId]
  /\ \E d \in DataDirectories :
        /\ identityFile = d.identity
        /\ configFile = d.config
  /\ instances = [i \in Instances |-> Off]
  /\ nStarts = 0
  /\ lastStart = NoStart
  /\ WireIdle
  /\ NetworkIdle
  /\ ReconnectIdle
  /\ AppIdle

NextStartup ==
  \/ \E i \in Instances, free \in Ports : nStarts < MaxStarts /\ StartPort(i, free)
  \/ \E i \in Instances, writeOk \in BOOLEAN : StartIdentity(i, writeOk)
  \/ \E i \in Instances, free \in Ports, failure \in {"none", "other"},
        retryFails \in BOOLEAN : StartNode(i, free, failure, retryFails)
  \/ \E i \in Instances : Shutdown(i)

SpecStartup == InitStartup /\ [][NextStartup]_vars

\* One node receiving chat envelopes: lines written to a chat stream,
\* send commands delivered over a stream or through the relay, and messages
\* other clients queued at the relay.
WireChannels == { <<>>, <<"c">> }

WireDatas == { <<>>, <<"a">>, <<"\"", "\n">>, <<"\\">>, <<EAcute>> }

Envelopes == [channelId : WireChannels, data : WireDatas]

QueuedDatas ==
  { <<"h", "i">>, <<"7">>, <<"null">>, <<"{", "}">>, quote(<<"a">>),
    stringify(<<"d">>, <<"a">>),
    <<"{">> \o member("data", <<"a">>) \o <<"}">>,
    <<"{">> \o member("channelId", <<"d">>) \o <<"}">>,
    <<"{", "\"", "a", "\"", ":", "7", "}">> }

InitWire ==
  /\ InitRelay
  /\ InitPeers
  /\ knownChatPeers = [n \in Nodes |-> {}]
  /\ relayPeerId = [n \in Nodes |-> RelayId]
  /\ StartupIdle
  /\ WireIdle
  /\ NetworkIdle
  /\ ReconnectIdle
  /\ AppIdle

NextWire ==
  \/ \E e \in Envelopes, k \in 0..40 : WriteLine(Sender, e, k)
  \/ \E cmd \in Envelopes, k \in 0..40 : SendDirect(Sender, cmd, k)
  \/ \E cmd \in Envelopes : SendRelay(Sender, cmd)
  \/ \E d \in QueuedDatas : QueueText("C", <<"c">>, d)
  \/ ChatChunk(Receiver)
  \/ ChatClose(Receiver)
  \/ PollTexts(Receiver)

SpecWire == InitWire /\ [][NextWire]_vars

\* One inbound chat stream of one node: frames well-formed, malformed and
\* blank, separated by line feeds, the last one terminated or not, the bytes
\* arriving in any chunks.
ObjectFrame(data) == <<"{">> \o member("data", data) \o <<"}">>

Frames ==
  { ObjectFrame(<<"a">>), ObjectFrame(<<EAcute>>), <<"{">>, <<"null">>, <<" ">> }

RECURSIVE joinLines(_)
joinLines(frames) ==
  IF Len(frames) = 1 THEN frames[1]
  ELSE frames[1] \o <<"\n">> \o joinLines(Tail(frames))

StreamTexts ==
  UNION { { joinLines(f), joinLines(f) \o <<"\n">> } :
            f \in UNION { [1..n -> Frames] : n \in 1..MaxFrames } }

NextFrames ==
  \/ /\ wires = <<>>
     /\ \E text \in StreamTexts :
          \E i, j \in 0..Len(fromString(text)) : WriteBytes(Sender, text, i, j)
  \/ ChatChunk(Receiver)
  \/ ChatClose(Receiver)

SpecFrames == InitWire /\ [][NextFrames]_vars

\* One node and the relay it has a reservation at: the relay becoming
\* unreachable and reachable again, the connection to it dropping and
\* coming back, and the node's reconnectRelay and registerInviteCode
\* callbacks.
InitReconnect ==
  /\ InitRelay
  /\ InitPeers
  /\ InitOther
  /\ knownChatPeers = [n \in Nodes |-> {}]
  /\ relayPeerId = [n \in Nodes |-> RelayId]

NextReconnect ==
  \/ RelayDown
  \/ RelayUp
  \/ RelayDisconnect(Sender)
  \/ RelayConnect(Sender)
  \/ ReconnectFire(Sender)
  \/ ReconnectInfo(Sender)
  \/ ReconnectDial(Sender)
  \/ \E fresh \in FreshCodes(codeToEntry) : ReconnectRegister(Sender, fresh)
  \/ \E fresh \in FreshCodes(codeToEntry) : RegisterRetry(Sender, fresh)

SpecReconnect == InitReconnect /\ [][NextReconnect]_vars

\* The same with the event loop running every callback that is due: a
\* pending timer fires, a request or dial under way settles (fetchJson
\* rejects after 10 s at the latest).
SpecReconnectFair ==
  /\ SpecReconnect
  /\ WF_vars(ReconnectFire(Sender))
  /\ WF_vars(ReconnectInfo(Sender))
  /\ WF_vars(ReconnectDial(Sender))
  /\ WF_vars(\E fresh \in FreshCodes(codeToEntry) : ReconnectRegister(Sender, fresh))
  /\ WF_vars(\E fresh \in FreshCodes(codeToEntry) : RegisterRetry(Sender, fresh))

\* The stdin command loop of one node fed lines that are no well-formed
\* command, and a well-formed send among them.
StdinLines ==
  { Line("invalid", "", Null, "", Null),
    Line("null", "", Null, "", Null),
    Line("number", "", Null, "", Null),
    Line("object", "frobnicate", "dm", "x", Null),
    Line("object", "send", "dm", "x", NotAString),
    Line("object", "send", NotAString, "x", Null),
    Line("object", "send", "dm", NotAString, Receiver),
    Line("object", "send", "dm", "x", Receiver) }

NextStdin ==
  \/ PeerConnect(Sender, Receiver)
  \/ PeerDisconnect(Sender, Receiver)
  \/ /\ nCmds < MaxRuns
     /\ \E line \in StdinLines : LoggedLine(Sender, line)
  \/ /\ nCmds < MaxRuns
     /\ \E line \in StdinLines :
          \E oc \in [CommandTargets(getPeers[Sender], knownChatPeers[Sender], line,
                                    relayPeerId[Sender], Sender) -> CallOutcomes] :
            SendLine(Sender, line, oc)

SpecStdin == InitDelivery /\ [][NextStdin]_vars

\* One node giving send commands for the other through the relay, the
\* other polling, requests and responses under way on the network.
NextInFlight ==
  \/ nCmds < MaxForwarded /\ SendStart(Sender, Receiver)
  \/ \E q \in sending : PostArrives(q)
  \/ nPolls < MaxPolls /\ PollStart(Receiver)
  \/ \E r \in replies : PollReply(Receiver, r)

SpecInFlight == Init /\ [][NextInFlight]_vars

\* ------------------------------------------------------ properties: relay

\* The seq numbers of a sequence of messages, in order.
SeqsOf(msgs) == [i \in 1..Len(msgs) |-> msgs[i].seq]

\* Every seq number any /poll response has carried so far.
AllReturned == UNION {returned[p] : p \in Recipients}

\* C1: each enqueued message is returned by at most one drain: a /poll
\* response carries no message an earlier /poll response carried, and a
\* drain(P, 0) that immediately follows a drain(P, 0) returns the empty
\* sequence.
DrainedAtMostOnce ==
  [][ lastOp'.op = "poll" =>
        /\ Range(SeqsOf(lastOp'.result)) \cap AllReturned = {}
        /\ (lastOp.op = "poll" /\ lastOp.peer = lastOp'.peer
              /\ lastOp.since = 0 /\ lastOp'.since = 0)
             => lastOp'.result = <<>> ]_vars

\* A drain(P, 0) that finds nothing, after drains of P that returned
\* messages.
SecondDrainEmpty ==
  /\ lastOp.op = "poll"
  /\ lastOp.since = 0
  /\ lastOp.before = <<>>
  /\ lastOp.result = <<>>
  /\ returned[lastOp.peer] # {}

\* C2: the messages of one drain of P are in the order of their enqueues,
\* and every message an earlier drain of P returned was enqueued before
\* every message of a later drain of P.
DrainsInEnqueueOrder ==
  [][ lastOp'.op = "poll" =>
        LET r == SeqsOf(lastOp'.result)
        IN  /\ \A i \in 1..(Len(r) - 1) : r[i] < r[i + 1]
            /\ r # <<>> => \A s \in returned[lastOp'.peer] : s < r[1] ]_vars

\* A drain of P that returns a message after an earlier drain of P returned
\* several.
LaterDrainAfterEarlier ==
  /\ lastOp.op = "poll"
  /\ lastOp.result # <<>>
  /\ Cardinality(returned[lastOp.peer]) > Len(lastOp.result) + 1

\* C8: no queue ever holds more than MSG_MAX_PER_PEER messages; an enqueue
\* onto a full queue drops exactly the oldest message and keeps the others
\* in order; BurstLen = MSG_MAX_PER_PEER + 5 enqueues onto an empty queue
\* leave the messages 6 .. BurstLen.
QueueBounded ==
  /\ \A p \in DOMAIN messageQueues : Len(messageQueues[p]) <= MSG_MAX_PER_PEER
  /\ (lastOp.op = "send" /\ Len(lastOp.before) = MSG_MAX_PER_PEER) =>
       LET queue == QueueOf(messageQueues, lastOp.peer)
       IN  /\ Len(queue) = MSG_MAX_PER_PEER
           /\ SubSeq(queue, 1, MSG_MAX_PER_PEER - 1) = Tail(lastOp.before)
           /\ queue[MSG_MAX_PER_PEER].seq = enqCount
  /\ (lastOp.op = "send" /\ enqCount = BurstLen) =>
       SeqsOf(QueueOf(messageQueues, lastOp.peer))
         = [i \in 1..MSG_MAX_PER_PEER |-> i + (BurstLen - MSG_MAX_PER_PEER)]

\* The enqueue onto a full queue that leaves the messages 6 .. 205.
OverflowDroppedOldest ==
  /\ lastOp.op = "send"
  /\ Len(lastOp.before) = MSG_MAX_PER_PEER
  /\ enqCount = BurstLen
  /\ QueueOf(messageQueues, lastOp.peer)[1].seq = BurstLen - MSG_MAX_PER_PEER + 1

\* C9: no drain result contains a message whose age now - ts has reached
\* MSG_TTL_MS, swept or not.
NoExpiredDrained ==
  lastOp.op = "poll" =>
    \A i \in 1..Len(lastOp.result) : now - lastOp.result[i].ts < MSG_TTL_MS

\* A drain that finds an expired message no sweep has removed, next to a
\* live one, and returns the live one only.
ExpiredLeftBehind ==
  /\ lastOp.op = "poll"
  /\ lastOp.result # <<>>
  /\ \E i \in 1..Len(lastOp.before) : now - lastOp.before[i].ts >= MSG_TTL_MS

\* m is among the messages drained, with from, channelId and data as
\* enqueued.
Drained(m, result) ==
  \E i \in 1..Len(result) :
    /\ result[i].seq = m.seq
    /\ result[i].from = m.from
    /\ result[i].channelId = m.channelId
    /\ result[i].data = m.data

\* C10 as stated: a drain(P, 0) returns every message enqueued for P since
\* P's last drain and the last sweep.
EnqueueThenDrainAlways ==
  (lastOp.op = "poll" /\ lastOp.since = 0) =>
    \A m \in lastOp.expected : Drained(m, lastOp.result)

\* C10: a drain(P, 0) returns, with from, channelId and data unchanged,
\* every message enqueued for P since P's last drain and the last sweep
\* that is younger than MSG_TTL_MS and has fewer than MSG_MAX_PER_PEER
\* later enqueues for P.
EnqueueThenDrain ==
  (lastOp.op = "poll" /\ lastOp.since = 0) =>
    \A m \in lastOp.expected :
      (/\ now - m.ts < MSG_TTL_MS
       /\ Cardinality({x \in lastOp.expected : x.seq > m.seq}) < MSG_MAX_PER_PEER)
        => Drained(m, lastOp.result)

\* A drain(P, 0) that returns a message enqueued some time before.
DrainedAfterWait ==
  /\ lastOp.op = "poll"
  /\ lastOp.since = 0
  /\ \E m \in lastOp.expected :
       /\ m.ts < now
       /\ now - m.ts < MSG_TTL_MS
       /\ Drained(m, lastOp.result)

\* C11: a /send for P and a /poll of P leave every other recipient's queue
\* as it was, and a /poll of P returns only messages that were enqueued
\* for P.
OnlyOwnQueue ==
  [][ lastOp'.op \in {"send", "poll"} =>
        /\ \A p \in (PeerIds \cup DOMAIN messageQueues \cup DOMAIN messageQueues')
                   \ {lastOp'.peer} :
             QueueOf(messageQueues', p) = QueueOf(messageQueues, p)
        /\ \A i \in 1..Len(lastOp'.result) : lastOp'.result[i].to = lastOp'.peer ]_vars

\* A drain of one recipient that returns messages while another recipient's
\* queue holds messages.
DrainedBesideOthers ==
  /\ lastOp.op = "poll"
  /\ lastOp.result # <<>>
  /\ \E p \in DOMAIN messageQueues : p # lastOp.peer /\ messageQueues[p] # <<>>

\* C30: after a drain of P, whatever since the /poll request gave, P's queue
\* holds no message: what the drain returns was in the queue and had not
\* been returned before, and the rest is removed with it.  No step puts a
\* message that has left a queue back into it, so what a drain held back
\* for its ts or its age no later drain finds.
DrainLeavesQueueEmpty ==
  [][ /\ lastOp'.op = "poll" =>
           /\ QueueOf(messageQueues', lastOp'.peer) = <<>>
           /\ \A i \in 1..Len(lastOp'.result) :
                /\ lastOp'.result[i] \in Range(lastOp'.before)
                /\ lastOp'.result[i].seq \notin returned[lastOp'.peer]
      /\ messageQueues' # messageQueues =>
           \A p \in DOMAIN messageQueues' :
             \A m \in Range(messageQueues'[p]) \ Range(QueueOf(messageQueues, p)) :
               m.seq > enqCount ]_vars

\* A drain with a positive or non-numeric since has returned some of the
\* messages the queue held and not others, and the queue is empty.
DrainHeldBackAndEmptied ==
  /\ lastOp.op = "poll"
  /\ lastOp.since # 0
  /\ lastOp.result # <<>>
  /\ Len(lastOp.result) < Len(lastOp.before)
  /\ QueueOf(messageQueues, lastOp.peer) = <<>>

\* --------------------------------------------------- properties: registry

\* C12: codeToEntry and peerToCode are mutually inverse: peerToCode[P] = c
\* exactly when codeToEntry[c].peerId = P.
RegistryBijection ==
  \A P \in DOMAIN peerToCode \cup {codeToEntry[c].peerId : c \in DOMAIN codeToEntry} :
    \A c \in DOMAIN codeToEntry \cup {peerToCode[Q] : Q \in DOMAIN peerToCode} :
      (P \in DOMAIN peerToCode /\ peerToCode[P] = c)
        <=> (c \in DOMAIN codeToEntry /\ codeToEntry[c].peerId = P)

\* A cleanup that removed one peer's expired code and kept the other's.
CleanupRemovedOne ==
  /\ lastReq.path = "cleanup"
  /\ Cardinality(DOMAIN issued) = 2
  /\ Cardinality(DOMAIN codeToEntry) = 1
  /\ Cardinality(DOMAIN peerToCode) = 1

\* C13: a /lookup of the code /register answered P with, in any letter
\* case, no later than CODE_TTL_MS after the last register or lookup of that
\* code, is answered 200 with peerId = P.
CodeResolves ==
  [][ lastReq'.path = "/lookup" =>
        \A P \in DOMAIN issued :
          (/\ SameCode(lastReq'.askedCode, issued[P].code)
           /\ now - issued[P].touched <= CODE_TTL_MS)
            => (lastReq'.status = 200 /\ lastReq'.peerId = P) ]_vars

\* A lookup in lower or mixed case that resolves a code registered
\* CODE_TTL_MS or longer before.
LowerCaseResolved ==
  /\ lastReq.path = "/lookup"
  /\ lastReq.status = 200
  /\ lastReq.askedCode # toUpperCase(lastReq.askedCode)
  /\ lastReq.peerId \in DOMAIN issued
  /\ now - issued[lastReq.peerId].registered >= CODE_TTL_MS

\* C14: a /register of P no later than CODE_TTL_MS after the previous
\* /register of P is answered with the same code and changes nothing in the
\* registry but the lastSeen of that code's entry.
ReRegisterSameCode ==
  [][ (/\ lastReq'.path = "/register"
       /\ lastReq'.status = 200
       /\ lastReq'.askedPeerId \in DOMAIN issued
       /\ now - issued[lastReq'.askedPeerId].registered <= CODE_TTL_MS)
        => LET code == issued[lastReq'.askedPeerId].code
           IN  /\ lastReq'.code = code
               /\ peerToCode' = peerToCode
               /\ DOMAIN codeToEntry' = DOMAIN codeToEntry
               /\ \A c \in DOMAIN codeToEntry :
                    /\ codeToEntry'[c].peerId = codeToEntry[c].peerId
                    /\ c # code => codeToEntry'[c] = codeToEntry[c]
               /\ codeToEntry'[code].lastSeen = now ]_vars

\* A second /register of a peer, some time after its first, answered with
\* the code of the first.
RegisteredAgain ==
  /\ lastReq.path = "/register"
  /\ lastReq.status = 200
  /\ issued[lastReq.askedPeerId].first < issued[lastReq.askedPeerId].registered
  /\ issued[lastReq.askedPeerId].registered = now

\* C15 as stated: a request answered with status 400 or 404 leaves the
\* invite registry and the message queues unchanged.
ErrorLeavesStateUnchanged ==
  [][ lastReq'.status \in {400, 404} =>
        UNCHANGED <<codeToEntry, peerToCode, messageQueues>> ]_vars

\* C38: no step but the expiry sweep removes a code from the registry; a
\* lookup of a registered code, in whatever case it is written and however
\* long ago the entry was last seen, answers with the entry's peer id and
\* sets lastSeen to the time of the lookup, and a sweep that runs within the
\* sweep interval after it keeps the entry.
ExpiredCodeResolvesUntilSwept ==
  [][ /\ (\E c \in DOMAIN codeToEntry : c \notin DOMAIN codeToEntry')
           => lastReq'.path = "cleanup"
      /\ \A c \in DOMAIN codeToEntry :
           (lastReq'.path = "/lookup" /\ toUpperCase(lastReq'.askedCode) = c) =>
             /\ lastReq'.status = 200
             /\ lastReq'.peerId = codeToEntry[c].peerId
             /\ c \in DOMAIN codeToEntry'
             /\ codeToEntry'[c].lastSeen = now'
             /\ c \in DOMAIN cleanupExpired(codeToEntry', peerToCode',
                                            now' + CLEANUP_INTERVAL_MS).codeToEntry
    ]_vars

\* A code last seen longer ago than CODE_TTL_MS has just been looked up: it
\* resolved, its lastSeen is the present time and a sweep now would keep it.
LookupRevivedExpiredCode ==
  \E p \in DOMAIN issued :
    /\ lastReq.path = "/lookup" /\ lastReq.status = 200 /\ lastReq.peerId = p
    /\ issued[p].touched = now
    /\ now - issued[p].before > CODE_TTL_MS
    /\ issued[p].code \in DOMAIN codeToEntry
    /\ codeToEntry[issued[p].code].lastSeen = now
    /\ issued[p].code \in DOMAIN cleanupExpired(codeToEntry, peerToCode, now).codeToEntry

\* ----------------------------------------------- properties: outbound router

\* A send command was handled in the last step.
Sent == lastCmd.node # Null

\* The peers connected to the node of the last command.
Connected == getPeers[lastCmd.node]

\* C4: a sendTo call attempts the direct stream exactly when the peer is
\* connected; after a successful direct attempt it posts nothing to the
\* relay; after a failed or skipped one it posts exactly one /send, to the
\* peer and from the node's own peer-id.
DirectThenRelay ==
  Sent =>
    \A i \in 1..Len(lastCmd.calls) :
      LET call == lastCmd.calls[i]
      IN  /\ call.direct \in {"ok", "failed"} <=> call.to \in Connected
          /\ call.direct = "ok" => call.posts = <<>>
          /\ call.direct # "ok" =>
               /\ Len(call.posts) = 1
               /\ call.posts[1].to = call.to
               /\ call.posts[1].from = lastCmd.node

\* A broadcast with one direct write that succeeded and one that failed and
\* fell back to the relay.
FailedDirectFellBack ==
  /\ Sent
  /\ \E i, j \in 1..Len(lastCmd.calls) :
       /\ lastCmd.calls[i].direct = "ok"
       /\ lastCmd.calls[j].direct = "failed"
       /\ Len(lastCmd.calls[j].posts) = 1

\* C5 as stated: every sendTo call adds one to exactly one of sent and
\* sendFail: to sent when the payload was written to a direct stream or the
\* relay enqueued it, to sendFail otherwise.
OneCounterPerSend ==
  Sent =>
    \A i \in 1..Len(lastCmd.calls) :
      LET call == lastCmd.calls[i]
          accepted == \E k \in 1..Len(call.posts) : Handled(call.posts[k].http)
      IN  /\ call.sent + call.sendFail = 1
          /\ call.sent = 1 <=> (call.direct = "ok" \/ accepted)

\* The peers the calls of the last command went to.
CallTargets == {lastCmd.calls[i].to : i \in 1..Len(lastCmd.calls)}

\* C6: a broadcast makes exactly one send attempt to each peer of
\* (connected peers \cup knownChatPeers) \ {relayPeerId, own peer-id}, and
\* to no other.
BroadcastTargets ==
  (Sent /\ lastCmd.cmd.targetPeerId = Null) =>
    /\ CallTargets = (Connected \cup knownChatPeers[lastCmd.node])
                       \ {relayPeerId[lastCmd.node], lastCmd.node}
    /\ \A i, j \in 1..Len(lastCmd.calls) :
         lastCmd.calls[i].to = lastCmd.calls[j].to => i = j

\* A broadcast by a node that is connected to the relay and has its own
\* peer-id among knownChatPeers, to two other peers.
BroadcastSkippedRelayAndSelf ==
  /\ Sent
  /\ lastCmd.cmd.targetPeerId = Null
  /\ relayPeerId[lastCmd.node] \in Connected
  /\ lastCmd.node \in knownChatPeers[lastCmd.node]
  /\ Len(lastCmd.calls) = 2

\* C7: a send command with a targetPeerId writes to streams of, and posts
\* /send requests addressed to, targetPeerId only.
TargetedSendOnly ==
  (Sent /\ lastCmd.cmd.targetPeerId # Null) =>
    /\ lastCmd.calls # <<>>
    /\ \A i \in 1..Len(lastCmd.calls) :
         /\ lastCmd.calls[i].to = lastCmd.cmd.targetPeerId
         /\ \A k \in 1..Len(lastCmd.calls[i].posts) :
              lastCmd.calls[i].posts[k].to = lastCmd.cmd.targetPeerId
    /\ lastOp.op = "send" => lastOp.peer = lastCmd.cmd.targetPeerId

\* A targeted send by a node that is connected to another peer and knows a
\* third.
TargetedAmongOthers ==
  /\ Sent
  /\ lastCmd.cmd.targetPeerId # Null
  /\ (Connected \cup knownChatPeers[lastCmd.node])
       \ {lastCmd.cmd.targetPeerId, lastCmd.node, relayPeerId[lastCmd.node]} # {}
  /\ lastCmd.cmd.targetPeerId \in Connected

\* ---------------------------------------------- properties: store and forward

\* The message is younger than MSG_TTL_MS and fewer than MSG_MAX_PER_PEER
\* newer ones were accepted for the same node.
Deliverable(m, others) ==
  /\ now - m.ts < MSG_TTL_MS
  /\ Cardinality({x \in others : x.seq > m.seq}) < MSG_MAX_PER_PEER

\* The last poll's response carried m and the node emitted the message
\* event for it: from the sender, with the channelId and data sent.
Delivered(m) ==
  \E i \in 1..Len(lastPoll.result) :
    /\ lastPoll.result[i].seq = m.seq
    /\ LET events == emitted[lastPoll.node]
           event == events[Len(events) - Len(lastPoll.result) + i]
       IN  /\ event.type = "message"
           /\ event.from = m.from
           /\ event.channelId = m.channelId
           /\ event.data = m.data

\* C3 as stated: the receiver's next successful poll returns every message
\* the relay accepted for it since its last successful poll (within
\* MSG_TTL_MS, fewer than MSG_MAX_PER_PEER newer ones), and the receiver
\* emits the message event.
NextSuccessfulPollReturns ==
  (lastPoll.node = Receiver /\ lastPoll.http = "ok") =>
    \A m \in lastPoll.pending :
      Deliverable(m, lastPoll.pending) => Delivered(m)

\* C3: a message the relay accepted for the receiver stays in the
\* receiver's queue while the relay handles no /poll of the receiver (within
\* MSG_TTL_MS, fewer than MSG_MAX_PER_PEER newer ones); the first /poll of
\* the receiver the relay handles then returns it, and when that response
\* reaches the receiver the receiver emits the message event with from = the
\* sender and the channelId and data sent.
HeldUntilPolled ==
  /\ \A m \in pending[Receiver] :
       (~m.drained /\ Deliverable(m, pending[Receiver])) =>
         /\ m.from = Sender
         /\ \E i \in 1..Len(QueueOf(messageQueues, Receiver)) :
              QueueOf(messageQueues, Receiver)[i].seq = m.seq
  /\ (lastPoll.node = Receiver /\ Handled(lastPoll.http)) =>
       \A m \in lastPoll.pending :
         (~m.drained /\ Deliverable(m, lastPoll.pending)) =>
           /\ \E i \in 1..Len(lastPoll.result) : lastPoll.result[i].seq = m.seq
           /\ lastPoll.http = "ok" => Delivered(m)

\* A poll that delivers a message the relay has held for some time.
HeldMessageDelivered ==
  /\ lastPoll.node = Receiver
  /\ lastPoll.http = "ok"
  /\ \E m \in lastPoll.pending :
       /\ ~m.drained
       /\ m.ts < now
       /\ Deliverable(m, lastPoll.pending)
       /\ Delivered(m)


\* ------------------------------------------------ properties: peer session

\* The dial command of the last step read an address the invite-code
\* pattern matches once trimmed.
DialledCode(run) ==
  run.fn = "dial" /\ hasTrim(run.address) /\ INVITE_CODE_RE(trim(run.address))

\* The relay resolved the code of the last step's dial command and its
\* answer reached the node.
LookupResolved(run, req) ==
  /\ run.requests # <<>>
  /\ run.requests[1].http = "ok"
  /\ req.path = "/lookup"
  /\ req.status = 200

\* C16: a dial command with an invite code whose /lookup resolves adds the
\* resolved peer-id to knownChatPeers and emits dial_result{ok:true, peerId}
\* whatever the circuit dial does; one whose /lookup does not resolve leaves
\* knownChatPeers unchanged and emits dial_result{ok:false}.
InviteDialResult ==
  [][ DialledCode(lastRun') =>
        LET n == lastRun'.node
            addr == trim(lastRun'.address)
        IN  IF LookupResolved(lastRun', lastReq')
            THEN /\ lastReq'.peerId \in knownChatPeers'[n]
                 /\ lastRun'.events =
                      <<Event("dial_result", TRUE, addr, lastReq'.peerId, NoCode)>>
            ELSE /\ knownChatPeers' = knownChatPeers
                 /\ lastRun'.events = <<Event("dial_result", FALSE, addr, "", NoCode)>> ]_vars

\* A dial of the other node's invite code, typed in another letter case,
\* that resolved while the circuit dial failed.
ResolvedButDialFailed ==
  /\ DialledCode(lastRun)
  /\ trim(lastRun.address) # toUpperCase(trim(lastRun.address))
  /\ LookupResolved(lastRun, lastReq)
  /\ lastRun.dials # <<>>
  /\ ~lastRun.dials[1].ok
  /\ lastReq.peerId = Receiver
  /\ Receiver \in knownChatPeers[lastRun.node]
  /\ lastRun.events[1].ok

\* A dial of a code the relay does not know.
UnknownCodeDialled ==
  /\ DialledCode(lastRun)
  /\ lastRun.requests # <<>>
  /\ lastRun.requests[1].http = "ok"
  /\ lastReq.status = 404
  /\ ~lastRun.events[1].ok

\* C17 as stated: every dial command emits exactly one dial_result with the
\* trimmed address; an invite-code-shaped address goes to /lookup, an address
\* beginning with '/' is dialed with ok the dial's outcome, any other address
\* gets ok:false with no lookup and no dial.
OneDialResultPerDial ==
  lastRun.fn = "dial" =>
    LET addr == trim(lastRun.address)
    IN  /\ Len(lastRun.events) = 1
        /\ lastRun.events[1].type = "dial_result"
        /\ lastRun.events[1].address = addr
        /\ IF INVITE_CODE_RE(addr)
           THEN Len(lastRun.requests) = 1 /\ lastRun.requests[1].path = "/lookup"
           ELSE IF startsWithSlash(addr)
           THEN /\ lastRun.requests = <<>>
                /\ Len(lastRun.dials) = 1
                /\ lastRun.dials[1].to = addr
                /\ lastRun.events[1].ok = lastRun.dials[1].ok
           ELSE /\ lastRun.requests = <<>>
                /\ lastRun.dials = <<>>
                /\ ~lastRun.events[1].ok

\* C18: no step removes a peer-id from a node's knownChatPeers.
KnownPeersOnlyGrow ==
  [][ \A n \in Nodes : knownChatPeers[n] \subseteq knownChatPeers'[n] ]_vars

\* After the relay and every peer disconnected and a send failed, the known
\* peers are still known.
KnownAfterDisconnects ==
  /\ getPeers[Sender] = {}
  /\ "reconnectRelay" \in timers[Sender]
  /\ stats[Sender].sendFail > 0
  /\ knownChatPeers[Sender] = {"B", "C"}

\* C19 as stated: every run of the poll timer's callback issues a /poll
\* request.
PollsOnEveryTick ==
  lastPoll.node # "" => lastPoll.http # ""

\* The /register requests and invite_code events of a run.
RegistersOf(run) ==
  {i \in 1..Len(run.requests) : run.requests[i].path = "/register"}
InviteCodesOf(run) ==
  {i \in 1..Len(run.events) : run.events[i].type = "invite_code"}

\* C20 as stated: an invite_code event follows a /register of the node's own
\* id that succeeded and carries the code the relay returned; a /register
\* that failed emits no invite_code and leaves inviteCode unchanged.
InviteCodeOnlyOnSuccess ==
  [][ lastRun'.fn \in {"registerInviteCode", "reconnectRelay"} =>
        /\ \A i \in InviteCodesOf(lastRun') :
             /\ \E j \in RegistersOf(lastRun') : lastRun'.requests[j].http = "ok"
             /\ lastReq'.path = "/register"
             /\ lastReq'.askedPeerId = lastRun'.node
             /\ lastReq'.status = 200
             /\ lastRun'.events[i].code = lastReq'.code
        /\ (\E j \in RegistersOf(lastRun') : lastRun'.requests[j].http # "ok")
             => /\ InviteCodesOf(lastRun') = {}
                /\ inviteCode' = inviteCode ]_vars

\* C21 as stated: a run of registerInviteCode whose /register failed leaves
\* a registerInviteCode timer pending, and one whose /register succeeded
\* schedules none.
RetriedUntilSuccess ==
  [][ (lastRun'.fn = "registerInviteCode" /\ lastRun'.requests # <<>>) =>
        IF lastRun'.requests[1].http = "ok" /\ lastReq'.status = 200
        THEN "registerInviteCode" \notin timers'[lastRun'.node]
        ELSE "registerInviteCode" \in timers'[lastRun'.node] ]_vars

\* --------------------------------------------------- properties: peer startup

\* C22: a peer process that is ready reports isEphemeral exactly when
\* loadOrCreatePort found the persisted port in use; such a process has bound
\* another port than the persisted one it checked, runs with the key it
\* generated itself, has not written the identity file, and the identity file
\* does not hold its key.
EphemeralIffPortInUse ==
  \A i \in Instances :
    instances[i].pc = "ready" =>
      /\ instances[i].isEphemeral = instances[i].foundInUse
      /\ instances[i].foundInUse =>
           /\ instances[i].bound # instances[i].checked
           /\ instances[i].privateKey = generateKeyPair(instances[i].run)
           /\ ~instances[i].wrote
           /\ identityFile.privateKey # privateKeyToProtobuf(instances[i].privateKey)

\* Two processes are ready on the data directory: one holds the persisted
\* port and the persisted identity, the other found the port in use.
SecondInstanceEphemeral ==
  \E i, j \in Instances :
    /\ instances[i].pc = "ready" /\ instances[j].pc = "ready"
    /\ ~instances[i].isEphemeral
    /\ identityFile = IdentityJson(instances[i].privateKey)
    /\ configFile = ConfigJson(instances[i].bound)
    /\ instances[j].foundInUse /\ instances[j].isEphemeral
    /\ instances[j].checked = instances[i].bound

\* C23: once a loadOrCreateIdentity(false) has generated a key and written
\* it to the identity file, every loadOrCreateIdentity(false) that finds the
\* file as written returns a key with the same peer id and leaves the file
\* as it is.
PersistedIdentityReloaded ==
  [][ \A i \in Instances, k \in 1..MaxStarts :
        ( /\ lastStart'.inst = i /\ lastStart'.step = "identity"
          /\ ~instances[i].conflict
          /\ identityFile = IdentityJson(generateKeyPair(k)) ) =>
            /\ peerIdFromPrivateKey(instances'[i].privateKey)
                 = peerIdFromPrivateKey(generateKeyPair(k))
            /\ identityFile' = identityFile ]_vars

\* A process has just loaded the key an earlier startup generated and
\* persisted.
LoadedEarlierIdentity ==
  \E i \in Instances :
    /\ lastStart.inst = i /\ lastStart.step = "identity"
    /\ ~instances[i].conflict /\ ~instances[i].isNew
    /\ instances[i].run > 1
    /\ instances[i].privateKey # generateKeyPair(instances[i].run)
    /\ lastStart.before = privateKeyToProtobuf(instances[i].privateKey)
    /\ identityFile = IdentityJson(instances[i].privateKey)

\* A running process uses the persisted identity: its key is the one the
\* identity file holds and it does not report itself ephemeral.
usesPersistedIdentity(i) ==
  /\ instances[i].pc = "ready"
  /\ ~instances[i].isEphemeral
  /\ identityFile = IdentityJson(instances[i].privateKey)

\* C26 as stated: no two processes running on the data directory at the
\* same time both use the persisted identity.
OnePersistedIdentityUser ==
  \A i, j \in Instances :
    (i # j /\ usesPersistedIdentity(i)) => ~usesPersistedIdentity(j)

ConfigHoldsResolvedPort ==
  lastStart.step = "port" =>
    configFile = ConfigJson(instances[lastStart.inst].port)

\* ------------------------------------------------- properties: wire formats

\* The events the receiving node emitted for the envelope numbered seq.
eventsOf(seq) ==
  LET Of(ev) == ev.seq = seq IN SelectSeq(emitted[Receiver], Of)

\* The envelope numbered seq is through: its stream has closed, or the poll
\* that returns it has been handled.
delivered(seq) ==
  /\ ~(stream.open /\ stream.seq = seq)
  /\ \A i \in DOMAIN inbox : inbox[i].seq # seq

\* C24 as stated: an envelope with string fields that was written to a chat
\* stream as one JSON line has, once the stream has closed, been emitted in
\* one message event with the envelope's channelId and data.
LineRoundTrip ==
  \A seq \in DOMAIN wires :
    (wires[seq].kind = "line" /\ delivered(seq)) =>
      /\ Len(eventsOf(seq)) = 1
      /\ eventsOf(seq)[1].channelId = Str(wires[seq].channelId)
      /\ eventsOf(seq)[1].data = Str(wires[seq].data)

\* C28 as stated: the event for a polled message carries the inner channelId
\* and data when the message's data parses as a JSON object that has both
\* fields, and the outer channelId and data in every other case.
PollUnwrapsOrKeepsOuter ==
  \A seq \in DOMAIN wires :
    (wires[seq].kind = "queued" /\ delivered(seq)) =>
      LET parsed == JSONparse(wires[seq].data)
          ev == eventsOf(seq)[1]
      IN  /\ Len(eventsOf(seq)) = 1
          /\ IF /\ parsed.t = "object"
                /\ parsed.channelId.t # "undefined"
                /\ parsed.data.t # "undefined"
             THEN ev.channelId = parsed.channelId /\ ev.data = parsed.data
             ELSE /\ ev.channelId = Str(wires[seq].channelId)
                  /\ ev.data = Str(wires[seq].data)

\* C29 as stated: a send command that has reached the receiving node, over a chat
\* stream or through the relay and a poll, has been emitted in one message
\* event, and on either path the event carries the command's data, the
\* sender as from, and the command's channelId (the default channel when the
\* command names none).
SendEventSameOnBothPaths ==
  \A seq \in DOMAIN wires :
    (wires[seq].kind \in {"direct", "relay"} /\ delivered(seq)) =>
      /\ Len(eventsOf(seq)) = 1
      /\ eventsOf(seq)[1].channelId = OrValue(Str(wires[seq].channelId), DefaultChannel)
      /\ eventsOf(seq)[1].data = Str(wires[seq].data)
      /\ eventsOf(seq)[1].from = wires[seq].from

\* The same send command, its data holding a quote or a line feed, has
\* arrived once in two chunks over a stream and once through the relay, and
\* the two events differ in nothing but the path.
SameSendOverStreamAndRelay ==
  \E i, j \in DOMAIN wires :
    /\ wires[i].kind = "direct" /\ wires[j].kind = "relay"
    /\ wires[i].channelId = wires[j].channelId /\ wires[i].data = wires[j].data
    /\ \E c \in DOMAIN wires[i].data : wires[i].data[c] \in {"\"", "\n"}
    /\ delivered(i) /\ delivered(j)
    /\ Len(eventsOf(i)) = 1 /\ Len(eventsOf(j)) = 1
    /\ eventsOf(i)[1].via = "stream" /\ eventsOf(j)[1].via = "poll"
    /\ eventsOf(i)[1].channelId = eventsOf(j)[1].channelId
    /\ eventsOf(i)[1].data = eventsOf(j)[1].data
    /\ eventsOf(i)[1].from = eventsOf(j)[1].from
    /\ stats[Receiver].recv = 2 /\ stats[Receiver].recvFail = 0

\* The frames of a text in the order in which they end: its lines and, last,
\* what follows the last line feed.
nonBlank(frame) == trim(frame) # <<>>

framesOf(text) == SelectSeq(split(text), nonBlank)

\* C31 as stated: once an inbound chat stream has closed, every non-blank
\* frame of it, the unterminated last one included, has been counted in
\* exactly one of recv (with a message event emitted) and recvFail.
EveryFrameCountedOnce ==
  \A seq \in DOMAIN wires :
    (wires[seq].kind = "bytes" /\ delivered(seq)) =>
      /\ stats[Receiver].recv + stats[Receiver].recvFail
           = Len(framesOf(wires[seq].data))
      /\ stats[Receiver].recv = Len(eventsOf(seq))

\* A frame that JSON.parse reads as a value whose fields can be read.
parsesToValue(frame) == JSONparse(frame).t \notin {"invalid", "null"}

\* A string value with every two-byte character decoded byte by byte.
RECURSIVE garble(_)
garble(text) ==
  IF text = <<>> THEN <<>>
  ELSE (IF Head(text) = EAcute THEN <<Replacement, Replacement>>
        ELSE <<Head(text)>>) \o garble(Tail(text))

garbled(v) == IF v.t = "string" THEN Str(garble(v.s)) ELSE v

inOneChunk(text, from, seq) ==
  LET lines == split(toString(fromString(text)))
  IN  chatLines(SubSeq(lines, 1, Len(lines) - 1), from, seq).events
        \o chatRest(lines[Len(lines)], from, seq).events

\* C33 as stated: the message events of a closed inbound chat stream are
\* those of its text arriving in one chunk, however the bytes were cut into
\* chunks.
ChunkingIrrelevant ==
  \A seq \in DOMAIN wires :
    (wires[seq].kind = "bytes" /\ delivered(seq)) =>
      eventsOf(seq) = inOneChunk(wires[seq].data, wires[seq].from, seq)

\* ------------------------------------------- properties: relay reconnection

\* C34: if from some time on the relay stays reachable, then whenever a
\* reconnection of the node is pending (its timer set by a disconnection of
\* the relay, or rescheduled by a failed attempt, or its call under way),
\* the node at some later time has dialed the relay and, after that dial,
\* registered its invite code.
ReconnectsOnceRelayStaysUp ==
  (<>[]reachable) =>
    ((Pending(attempts) > 0) ~> (attempts.dialed = 1 /\ attempts.registered = 1))

\* After a disconnection of the relay an attempt failed and was scheduled
\* again, and by now the node has dialed the relay and registered its code;
\* no attempt is left.
ReconnectedAfterRetry ==
  /\ attempts.retried = 1 /\ attempts.dialed = 1 /\ attempts.registered = 1
  /\ Pending(attempts) = 0
  /\ RelayId \in getPeers[Sender]
  /\ relayPeerId[Sender] = RelayId
  /\ inviteCode[Sender] \in GeneratedCodes

\* C35 as stated: a node has at most one reconnection of the relay pending
\* or under way.
AtMostOneReconnect == Pending(attempts) <= 1

\* ------------------------------------------------- properties: stdin lines

\* The fields of a send command are strings.
wellTyped(cmd) ==
  hasSlice(cmd.channelId) /\ hasSlice(cmd.data) /\ hasSlice(cmd.targetPeerId)

\* C25 as stated: a stdin line that is not JSON, or is JSON but no
\* well-formed command (null, no object, an unknown cmd, a field of the
\* wrong type), ends in a log event and is discarded: no send call is made
\* for it and knownChatPeers, stats and inviteCode stay as they were.
MalformedLineDiscarded ==
  [][ /\ lastRun'.fn = "line" =>
           /\ \E i \in DOMAIN lastRun'.events : lastRun'.events[i].type = "log"
           /\ knownChatPeers' = knownChatPeers /\ stats' = stats
           /\ inviteCode' = inviteCode
      /\ (lastCmd'.node # "" /\ ~wellTyped(lastCmd'.cmd)) =>
           /\ lastCmd'.calls = <<>>
           /\ knownChatPeers' = knownChatPeers /\ stats' = stats
           /\ inviteCode' = inviteCode ]_vars

\* ------------------------------------------- properties: requests under way

\* The place of a message among the send commands.
orderOf(data) == CHOOSE k \in DOMAIN Messages : Messages[k] = data

\* C27 as stated: the receiving node emits the messages that reached it
\* through the relay in the order in which the sender was given the send
\* commands.
RelayedInCommandOrder ==
  \A i, j \in DOMAIN emitted[Receiver] :
    i < j => orderOf(emitted[Receiver][i].data) < orderOf(emitted[Receiver][j].data)

\* ------------------------------------------------- known peers of the app

\* The addresses are texts: a multiaddr begins with "/", an invite code
\* does not.
Multiaddr(k) == <<"/", ToString(k)>>
InviteAddress == <<"A", "B", "-", "2">>

\* peers.sort((a, b) => b.lastSeen - a.lastSeen): Array.prototype.sort is
\* stable, entries with the same lastSeen keep their order.
sortByLastSeen(peers) ==
  LET n == Len(peers)
      before(i) == {j \in 1..n :
                      \/ peers[j].lastSeen > peers[i].lastSeen
                      \/ peers[j].lastSeen = peers[i].lastSeen /\ j < i}
      place == {<<Cardinality(before(i)) + 1, i>> : i \in 1..n}
  IN  [k \in 1..n |-> peers[(CHOOSE p \in place : p[1] = k)[2]]]

\* addKnownPeer without the sort.
addKnownPeerUnsorted(peers, address, t) ==
  LET trimmed == trim(address)
      found == {i \in DOMAIN peers : peers[i].address = trimmed}
      updated == IF found # {}
                 THEN LET idx == CHOOSE i \in found : \A j \in found : i <= j
                      IN  [peers EXCEPT ![idx].lastSeen = t]
                 ELSE Append(peers, [address |-> trimmed, lastSeen |-> t])
  IN  IF trimmed = <<>> THEN peers
      ELSE SubSeq(updated, 1, Min(Len(updated), MAX_PEERS))

\* addKnownPeer(address) at clock t, on the stored list peers: what
\* localStorage holds afterwards.
addKnownPeer(peers, address, t) ==
  LET trimmed == trim(address)
      found == {i \in DOMAIN peers : peers[i].address = trimmed}
      updated == IF found # {}
                 THEN LET idx == CHOOSE i \in found : \A j \in found : i <= j
                      IN  [peers EXCEPT ![idx].lastSeen = t]
                 ELSE Append(peers, [address |-> trimmed, lastSeen |-> t])
      sorted == sortByLastSeen(updated)
  IN  IF trimmed = <<>> THEN peers
      ELSE SubSeq(sorted, 1, Min(Len(sorted), MAX_PEERS))

\* valid.forEach((p) => addKnownPeer(p.address)): stored is what a call
\* has written to localStorage when the next one reads it.
RECURSIVE addEach(_, _, _)
addEach(peers, valid, t) ==
  IF valid = <<>> THEN peers
  ELSE LET stored == addKnownPeer(peers, Head(valid).address, t)
       IN  IF Len(stored) = 0 THEN addEach(<<>>, Tail(valid), t)
           ELSE addEach(stored, Tail(valid), t)

validEntry(p) == startsWithSlash(p.address)

\* What the first 'ready' event of a session leaves in localStorage.
pruned(known, t) ==
  LET valid == SelectSeq(known, validEntry)
      stale == Len(known) - Len(valid)
  IN  IF stale > 0
      THEN IF Len(valid) = 0 THEN <<>> ELSE addEach(known, valid, t)
      ELSE known

NoOtherThanAppStep ==
  /\ UNCHANGED <<messageQueues, enqCount, returned, unswept, nSends, nPolls, burst>>
  /\ UNCHANGED peerVars
  /\ UNCHANGED <<registryVars, inviteCode>>
  /\ UNCHANGED <<startupVars, wireVars, inFlightVars, reconnectVars>>
  /\ lastOp' = NoOp /\ lastCmd' = NoCmd /\ lastPoll' = NoPoll
  /\ lastReq' = NoReq /\ lastRun' = NoRun

\* handleP2PEvent, case 'ready'.
Ready ==
  /\ knownPeersReconnected' = TRUE
  /\ localStorage' = IF knownPeersReconnected THEN localStorage
                     ELSE pruned(localStorage, now)
  /\ lastUi' = [NoUi EXCEPT !.type = "ready", !.before = localStorage,
                            !.first = ~knownPeersReconnected,
                            !.dials = IF knownPeersReconnected THEN <<>>
                                      ELSE SelectSeq(localStorage, validEntry)]
  /\ UNCHANGED <<now, nTicks, nAdds>>
  /\ NoOtherThanAppStep

\* handleP2PEvent, case 'dial_result'.
DialResult(ok, address) ==
  /\ nAdds < MaxAdds
  /\ nAdds' = nAdds + 1
  /\ localStorage' = IF ok THEN addKnownPeer(localStorage, address, now)
                     ELSE localStorage
  /\ lastUi' = [NoUi EXCEPT !.type = "dial_result", !.ok = ok,
                            !.address = address, !.before = localStorage]
  /\ UNCHANGED <<now, nTicks, knownPeersReconnected>>
  /\ NoOtherThanAppStep

\* A millisecond passes.
Millisecond ==
  /\ nTicks < MaxMilliseconds
  /\ now' = now + 1
  /\ nTicks' = nTicks + 1
  /\ lastUi' = NoUi
  /\ UNCHANGED <<localStorage, knownPeersReconnected, nAdds>>
  /\ NoOtherThanAppStep

\* The first k multiaddrs, stored a millisecond apart, the first one last.
Stored(k, t) == [i \in 1..k |-> [address |-> Multiaddr(i), lastSeen |-> t - i]]

\* What earlier sessions have left in localStorage: lists addKnownPeer has
\* written, some of them with the invite codes that successful dials of
\* a code stored.
StoredLists(t) ==
  LET invite == [address |-> InviteAddress, lastSeen |-> t - MAX_PEERS]
  IN  { <<>>,
        <<invite>>,
        Stored(1, t) \o <<invite>>,
        <<[invite EXCEPT !.lastSeen = t]>> \o Stored(1, t),
        Stored(MAX_PEERS - 1, t) \o <<invite>>,
        Stored(MAX_PEERS, t) }

\* The dial_result events: successful dials of an address the list holds,
\* of new ones, of an invite code and of nothing, and a failed dial.
ResultEvents ==
  { [ok |-> TRUE, address |-> a] :
      a \in { Multiaddr(1), <<" ">> \o Multiaddr(MAX_PEERS + 1) \o <<" ">>,
              Multiaddr(MAX_PEERS + 2), InviteAddress, <<" ">> } }
    \cup { [ok |-> FALSE, address |-> Multiaddr(1)] }

InitKnownPeers ==
  /\ InitRelay
  /\ InitPeers
  /\ knownChatPeers = [n \in Nodes |-> {}]
  /\ relayPeerId = [n \in Nodes |-> Null]
  /\ StartupIdle /\ WireIdle /\ NetworkIdle /\ ReconnectIdle
  /\ localStorage \in StoredLists(now)
  /\ knownPeersReconnected = FALSE
  /\ nAdds = 0
  /\ lastUi = NoUi

NextKnownPeers ==
  \/ Ready
  \/ \E evt \in ResultEvents : DialResult(evt.ok, evt.address)
  \/ Millisecond

SpecKnownPeers == InitKnownPeers /\ [][NextKnownPeers]_vars

\* ------------------------------------------------ properties: known peers

addressesOf(peers) == {peers[i].address : i \in DOMAIN peers}

\* C39 as stated: once the first 'ready' event of a session has been
\* handled, localStorage holds no known peer whose address does not begin
\* with "/".
NoStaleAfterFirstReady ==
  (lastUi.type = "ready" /\ lastUi.first) =>
    \A i \in DOMAIN localStorage : validEntry(localStorage[i])
\* With nothing but stale entries the first 'ready' event clears the list.
AllStaleCleared ==
  (/\ lastUi.type = "ready" /\ lastUi.first
   /\ \A i \in DOMAIN lastUi.before : ~validEntry(lastUi.before[i])) =>
    localStorage = <<>>

\* The entries of the list before the step that the list no longer holds,
\* the added one aside.
droppedFrom(before, after) ==
  {i \in DOMAIN before : before[i].address \notin addressesOf(after)}

sortedNewestFirst(peers) ==
  \A i, j \in DOMAIN peers : i < j => peers[i].lastSeen >= peers[j].lastSeen

\* An add(address) call that reached the list was the last step.
added == lastUi.type = "dial_result" /\ lastUi.ok /\ trim(lastUi.address) # <<>>

cappedOldestDropped ==
  /\ Len(localStorage) <= MAX_PEERS
  /\ sortedNewestFirst(localStorage)
  /\ \A i \in droppedFrom(lastUi.before, localStorage), j \in DOMAIN localStorage :
       lastUi.before[i].lastSeen <= localStorage[j].lastSeen

\* C40 as stated: after an add(address) call the list has at most 50
\* entries, sorted by lastSeen descending; what was dropped is no newer than
\* what was kept, and the address just added is in the list.
AddedAlwaysRetained ==
  added => /\ cappedOldestDropped
           /\ trim(lastUi.address) \in addressesOf(localStorage)

\* C40: after an add(address) call the list has at most 50 entries, sorted
\* by lastSeen descending; what was dropped is no newer than what was kept,
\* and the address just added is in the list unless 50 other entries
\* carried a lastSeen at least as late as the time of the call.
AddedRetainedUnlessTied ==
  added =>
    /\ cappedOldestDropped
    /\ trim(lastUi.address) \in addressesOf(localStorage) <=>
         Cardinality({i \in DOMAIN lastUi.before :
                        /\ lastUi.before[i].address # trim(lastUi.address)
                        /\ lastUi.before[i].lastSeen >= now}) < MAX_PEERS

\* A new address was added to a full list and took the place of the entry
\* seen longest ago.
OldestGaveWay ==
  /\ added
  /\ Len(lastUi.before) = MAX_PEERS
  /\ trim(lastUi.address) \notin addressesOf(lastUi.before)
  /\ trim(lastUi.address) \in addressesOf(localStorage)
  /\ droppedFrom(lastUi.before, localStorage) = {MAX_PEERS}
====
